---- MODULE Spec2Model ----
(***************************************************************************)
(* thujareader: the Bubble Tea model of internal/ui/model.go (the second,  *)
(* complete revision of the file, lines 542-1729) as a state machine.      *)
(*                                                                         *)
(* Conventions.  Offsets, line indexes and chapter indexes are 0-based as  *)
(* in the Go code; TLA+ sequences are 1-based, so element i of a Go slice  *)
(* s is s[i+1].  A Go string is kept as the sequence of its code points;   *)
(* where the code indexes a string by bytes (len, slicing, strings.Index)  *)
(* the UTF-8 encoding of that sequence is used (StringBytes).  A nil       *)
(* pointer is the empty sequence Nil and a pointer to v is <<v>>.          *)
(***************************************************************************)
EXTENDS Integers, Sequences, FiniteSets, TLC

VARIABLES
  width, height,            \* Model.width, Model.height
  currentBook,              \* Model.currentBook: Nil or <<LoadedBook>>
  textRunes,                \* Model.textRunes
  lines, lineOffsets,       \* Model.lines, Model.lineOffsets
  topLine,                  \* Model.topLine
  currentPos,               \* Model.currentPos
  tocOpen, tocIndex,        \* TOC dialog
  bookmarks,                \* Model.bookmarks: map BookID -> list of Bookmark
  bookmarksOpen, bookmarkIndex,
  recentFiles, recentOpen, recentIndex, recentLimit,
  lastSearch, lastSearchOffset,
  activeMenu, activeItem, menuOpen,
  statusLine, statusDirty,
  inputMode, inputPrompt, inputBuffer, pendingCommand,
  quit,                     \* Update returned tea.Quit
  startup                   \* main: the configuration path, the file there,
                            \* and the cfg and err config.Load returned

vars == <<width, height, currentBook, textRunes, lines, lineOffsets, topLine,
          currentPos, tocOpen, tocIndex, bookmarks, bookmarksOpen,
          bookmarkIndex, recentFiles, recentOpen, recentIndex, recentLimit,
          lastSearch, lastSearchOffset, activeMenu, activeItem, menuOpen,
          statusLine, statusDirty, inputMode, inputPrompt, inputBuffer,
          pendingCommand, quit, startup>>

(***************************************************************************)
(* Bounds of the model.                                                    *)
(***************************************************************************)
\* longest linear text drawn for the wrap and search specifications
MaxTextLen == 4
\* widest terminal a WindowSizeMsg or the startup detection reports
MaxWidth == 5
\* tallest terminal a WindowSizeMsg or the startup detection reports
MaxHeight == 6
\* most chapters of a drawn book
MaxChapters == 3
\* most code points typed into a prompt
MaxInput == 2
\* most bookmarks kept for one book
MaxBookmarks == 2
\* longest chapter of a drawn book
MaxChapterLen == 2

(***************************************************************************)
(* Helpers shared by the model.                                            *)
(***************************************************************************)
Nil == <<>>

max(a, b) == IF a > b THEN a ELSE b

\* '\n'
NewLine == 10

ZeroPosition == [ChapterIndex |-> 0, OffsetInChapter |-> 0]

\* The UTF-8 encoding of one code point (below U+10000), as Go's
\* string([]rune) produces it.
Utf8(r) ==
  IF r < 128 THEN <<r>>
  ELSE IF r < 2048 THEN <<192 + (r \div 64), 128 + (r % 64)>>
  ELSE <<224 + (r \div 4096), 128 + ((r \div 64) % 64), 128 + (r % 64)>>

\* string(runes) seen as bytes.
RECURSIVE StringBytes(_)
StringBytes(rs) ==
  IF rs = <<>> THEN <<>> ELSE Utf8(Head(rs)) \o StringBytes(Tail(rs))

\* s[from:] of a Go string or slice (from is 0-based).
SliceFrom(s, from) == SubSeq(s, from + 1, Len(s))

HasPrefix(s, sub) == Len(sub) <= Len(s) /\ SubSeq(s, 1, Len(sub)) = sub

\* strings.Index: the first 0-based index at which sub occurs in s, or -1.
Index(s, sub) ==
  LET hits == {i \in 0..Len(s) : HasPrefix(SliceFrom(s, i), sub)}
  IN IF hits = {} THEN -1 ELSE CHOOSE i \in hits : \A j \in hits : i <= j

\* runewidth.RuneWidth: 2 for CJK ideographs, 0 for combining marks, else 1.
RuneWidth(r) ==
  IF r >= 19968 /\ r <= 40959 THEN 2
  ELSE IF r >= 768 /\ r <= 879 THEN 0
  ELSE 1

\* unicode.IsSpace on the code points the model uses.
IsSpace(r) == r \in {9, 10, 11, 12, 13, 32, 133, 160}

\* strings.TrimSpace.
RECURSIVE TrimLeft(_)
TrimLeft(rs) ==
  IF rs # <<>> /\ IsSpace(Head(rs)) THEN TrimLeft(Tail(rs)) ELSE rs

RECURSIVE TrimRight(_)
TrimRight(rs) ==
  IF rs # <<>> /\ IsSpace(rs[Len(rs)]) THEN TrimRight(SubSeq(rs, 1, Len(rs) - 1))
  ELSE rs

TrimSpace(rs) == TrimRight(TrimLeft(rs))

(***************************************************************************)
(* The Model value: the variables as one record, so that the methods of    *)
(* *Model are operators from Model to Model and a handler is their         *)
(* composition, as in the code.                                            *)
(***************************************************************************)
M ==
  [width |-> width, height |-> height, currentBook |-> currentBook,
   textRunes |-> textRunes, lines |-> lines, lineOffsets |-> lineOffsets,
   topLine |-> topLine, currentPos |-> currentPos, tocOpen |-> tocOpen,
   tocIndex |-> tocIndex, bookmarks |-> bookmarks,
   bookmarksOpen |-> bookmarksOpen, bookmarkIndex |-> bookmarkIndex,
   recentFiles |-> recentFiles, recentOpen |-> recentOpen,
   recentIndex |-> recentIndex, recentLimit |-> recentLimit,
   lastSearch |-> lastSearch, lastSearchOffset |-> lastSearchOffset,
   activeMenu |-> activeMenu, activeItem |-> activeItem,
   menuOpen |-> menuOpen, statusLine |-> statusLine,
   statusDirty |-> statusDirty, inputMode |-> inputMode,
   inputPrompt |-> inputPrompt, inputBuffer |-> inputBuffer,
   pendingCommand |-> pendingCommand, quit |-> quit]

\* The variables take the fields of m (used primed for the next state and
\* unprimed for the initial state).
IsModel(m, w, h, cb, tr, ls, lo, tl, cp, to, ti, bm, bo, bi, rf, ro, ri, rl, lse, lso, am, ai, mo, sl, sd, im, ip, ib, pc, q) ==
  /\ w = m.width /\ h = m.height /\ cb = m.currentBook /\ tr = m.textRunes
  /\ ls = m.lines /\ lo = m.lineOffsets /\ tl = m.topLine
  /\ cp = m.currentPos /\ to = m.tocOpen /\ ti = m.tocIndex
  /\ bm = m.bookmarks /\ bo = m.bookmarksOpen /\ bi = m.bookmarkIndex
  /\ rf = m.recentFiles /\ ro = m.recentOpen /\ ri = m.recentIndex
  /\ rl = m.recentLimit /\ lse = m.lastSearch /\ lso = m.lastSearchOffset
  /\ am = m.activeMenu /\ ai = m.activeItem /\ mo = m.menuOpen
  /\ sl = m.statusLine /\ sd = m.statusDirty /\ im = m.inputMode
  /\ ip = m.inputPrompt /\ ib = m.inputBuffer /\ pc = m.pendingCommand
  /\ q = m.quit

(***************************************************************************)
(* Position model.                                                         *)
(***************************************************************************)
Chapters(m) == m.currentBook[1].Book.Chapters

\* positionToAbsoluteOffset without the addition of OffsetInChapter.
positionToAbsoluteOffsetNoAdd(m, pos) ==
  IF m.currentBook = Nil THEN 0
  ELSE IF pos.ChapterIndex < 0 \/ pos.ChapterIndex >= Len(Chapters(m)) THEN 0
  ELSE Chapters(m)[pos.ChapterIndex + 1].Offset

\* positionToAbsoluteOffset that clamps a chapter index beyond the book to the
\* last chapter.
positionToAbsoluteOffsetClampsIndex(m, pos) ==
  IF m.currentBook = Nil THEN 0
  ELSE IF pos.ChapterIndex < 0 \/ Len(Chapters(m)) = 0 THEN 0
  ELSE LET ci == IF pos.ChapterIndex >= Len(Chapters(m))
                 THEN Len(Chapters(m)) - 1 ELSE pos.ChapterIndex
           ch == Chapters(m)[ci + 1]
       IN ch.Offset + pos.OffsetInChapter

positionToAbsoluteOffset(m, pos) ==
  IF m.currentBook = Nil THEN 0
  ELSE IF pos.ChapterIndex < 0 \/ pos.ChapterIndex >= Len(Chapters(m)) THEN 0
  ELSE LET ch == Chapters(m)[pos.ChapterIndex + 1]
       IN ch.Offset + pos.OffsetInChapter

\* absoluteOffsetToPosition whose loop takes a chapter's range as closed at
\* its upper bound.
absoluteOffsetToPositionClosedRange(m, offset) ==
  IF m.currentBook = Nil \/ offset <= 0 THEN ZeroPosition
  ELSE LET chapters == Chapters(m) IN
    IF Len(chapters) = 0 THEN ZeroPosition
    ELSE
      LET found == {i \in 0..(Len(chapters) - 1) :
                      offset <= chapters[i + 1].Offset + chapters[i + 1].Length}
          chapterIndex == IF found = {} THEN 0
                          ELSE CHOOSE i \in found : \A j \in found : i <= j
          ch == chapters[chapterIndex + 1]
          off1 == IF offset < ch.Offset THEN ch.Offset ELSE offset
          oic == off1 - ch.Offset
          offsetInChapter == IF oic < 0 THEN 0 ELSE oic
      IN [ChapterIndex |-> chapterIndex, OffsetInChapter |-> offsetInChapter]

\* absoluteOffsetToPosition whose loop compares the offset with the chapter's
\* length alone, not with the chapter's end.
absoluteOffsetToPositionChapterLength(m, offset) ==
  IF m.currentBook = Nil \/ offset <= 0 THEN ZeroPosition
  ELSE LET chapters == Chapters(m) IN
    IF Len(chapters) = 0 THEN ZeroPosition
    ELSE
      LET found == {i \in 0..(Len(chapters) - 1) : offset < chapters[i + 1].Length}
          chapterIndex == IF found = {} THEN 0
                          ELSE CHOOSE i \in found : \A j \in found : i <= j
          ch == chapters[chapterIndex + 1]
          off1 == IF offset < ch.Offset THEN ch.Offset ELSE offset
          oic == off1 - ch.Offset
          offsetInChapter == IF oic < 0 THEN 0 ELSE oic
      IN [ChapterIndex |-> chapterIndex, OffsetInChapter |-> offsetInChapter]

absoluteOffsetToPosition(m, offset) ==
  IF m.currentBook = Nil \/ offset <= 0 THEN ZeroPosition
  ELSE LET chapters == Chapters(m) IN
    IF Len(chapters) = 0 THEN ZeroPosition
    ELSE
      LET found == {i \in 0..(Len(chapters) - 1) :
                      offset < chapters[i + 1].Offset + chapters[i + 1].Length}
          chapterIndex == IF found = {} THEN 0
                          ELSE CHOOSE i \in found : \A j \in found : i <= j
          ch == chapters[chapterIndex + 1]
          off1 == IF offset < ch.Offset THEN ch.Offset ELSE offset
          oic == off1 - ch.Offset
          offsetInChapter == IF oic < 0 THEN 0 ELSE oic
      IN [ChapterIndex |-> chapterIndex, OffsetInChapter |-> offsetInChapter]

(***************************************************************************)
(* Viewport wrap engine.                                                   *)
(***************************************************************************)
\* The closure flushLine over the loop's locals.
flushLine(st) ==
  [st EXCEPT !.lines = Append(@, st.lineRunes),
             !.offsets = Append(@, st.lineStartOffset),
             !.lineRunes = <<>>,
             !.col = 0,
             !.lineStartOffset = 0]

\* WrapRune that drops the code point at which it breaks the line.
WrapRuneDropsAtBreak(st, r, innerWidth) ==
  IF r = NewLine
  THEN LET f == flushLine(st)
       IN [f EXCEPT !.currentOffset = st.currentOffset + 1,
                    !.lineStartOffset = st.currentOffset + 1]
  ELSE LET rw0 == RuneWidth(r)
           rw == IF rw0 <= 0 THEN 1 ELSE rw0
       IN IF st.col > 0 /\ st.col + rw > innerWidth
          THEN [flushLine(st) EXCEPT !.lineStartOffset = st.currentOffset + 1,
                                     !.currentOffset = st.currentOffset + 1]
          ELSE [st EXCEPT !.lineRunes = Append(@, r),
                          !.col = @ + rw,
                          !.currentOffset = @ + 1]

\* WrapRune that breaks the line one column late.
WrapRuneLateBreak(st, r, innerWidth) ==
  IF r = NewLine
  THEN LET f == flushLine(st)
       IN [f EXCEPT !.currentOffset = st.currentOffset + 1,
                    !.lineStartOffset = st.currentOffset + 1]
  ELSE LET rw0 == RuneWidth(r)
           rw == IF rw0 <= 0 THEN 1 ELSE rw0
           s1 == IF st.col > 0 /\ st.col + rw > innerWidth + 1
                 THEN [flushLine(st) EXCEPT !.lineStartOffset = st.currentOffset]
                 ELSE st
       IN [s1 EXCEPT !.lineRunes = Append(@, r),
                     !.col = @ + rw,
                     !.currentOffset = @ + 1]

\* WrapRune that leaves lineStartOffset as flushLine reset it after a break.
WrapRuneKeepsStart(st, r, innerWidth) ==
  IF r = NewLine
  THEN LET f == flushLine(st)
       IN [f EXCEPT !.currentOffset = st.currentOffset + 1,
                    !.lineStartOffset = st.currentOffset + 1]
  ELSE LET rw0 == RuneWidth(r)
           rw == IF rw0 <= 0 THEN 1 ELSE rw0
           s1 == IF st.col > 0 /\ st.col + rw > innerWidth
                 THEN flushLine(st)
                 ELSE st
       IN [s1 EXCEPT !.lineRunes = Append(@, r),
                     !.col = @ + rw,
                     !.currentOffset = @ + 1]

\* WrapRune that breaks the line one column early.
WrapRuneEarlyBreak(st, r, innerWidth) ==
  IF r = NewLine
  THEN LET f == flushLine(st)
       IN [f EXCEPT !.currentOffset = st.currentOffset + 1,
                    !.lineStartOffset = st.currentOffset + 1]
  ELSE LET rw0 == RuneWidth(r)
           rw == IF rw0 <= 0 THEN 1 ELSE rw0
           s1 == IF st.col > 0 /\ st.col + rw >= innerWidth
                 THEN [flushLine(st) EXCEPT !.lineStartOffset = st.currentOffset]
                 ELSE st
       IN [s1 EXCEPT !.lineRunes = Append(@, r),
                     !.col = @ + rw,
                     !.currentOffset = @ + 1]

\* One iteration of the loop over m.textRunes.
WrapRune(st, r, innerWidth) ==
  IF r = NewLine
  THEN LET f == flushLine(st)
       IN [f EXCEPT !.currentOffset = st.currentOffset + 1,
                    !.lineStartOffset = st.currentOffset + 1]
  ELSE LET rw0 == RuneWidth(r)
           rw == IF rw0 <= 0 THEN 1 ELSE rw0
           s1 == IF st.col > 0 /\ st.col + rw > innerWidth
                 THEN [flushLine(st) EXCEPT !.lineStartOffset = st.currentOffset]
                 ELSE st
       IN [s1 EXCEPT !.lineRunes = Append(@, r),
                     !.col = @ + rw,
                     !.currentOffset = @ + 1]

RECURSIVE WrapLoop(_, _, _, _)
WrapLoop(text, i, innerWidth, st) ==
  IF i > Len(text) THEN st
  ELSE WrapLoop(text, i + 1, innerWidth, WrapRune(st, text[i], innerWidth))

\* The loop and the final flush: the wrapped lines and their offsets.
Wrap(text, innerWidth) ==
  LET st0 == [lines |-> <<>>, offsets |-> <<>>, lineRunes |-> <<>>,
              col |-> 0, lineStartOffset |-> 0, currentOffset |-> 0]
      st1 == WrapLoop(text, 1, innerWidth, st0)
  IN IF Len(st1.lineRunes) > 0 THEN flushLine(st1) ELSE st1

\* reflowWrappedLines that appends the new lines to the stored ones.
reflowWrappedLinesAppends(m) ==
  IF m.currentBook = Nil \/ Len(m.textRunes) = 0
  THEN [m EXCEPT !.lines = <<>>, !.lineOffsets = <<>>, !.topLine = 0]
  ELSE LET innerWidth == max(0, m.width - 2) IN
    IF innerWidth <= 0
    THEN [m EXCEPT !.lines = <<>>, !.lineOffsets = <<>>, !.topLine = 0]
    ELSE LET w == Wrap(m.textRunes, innerWidth)
         IN [m EXCEPT !.lines = @ \o w.lines,
                      !.lineOffsets = @ \o w.offsets,
                      !.topLine = IF m.topLine >= Len(m.lines) + Len(w.lines)
                                  THEN max(0, Len(m.lines) + Len(w.lines) - 1)
                                  ELSE m.topLine]

\* reflowWrappedLines without the final clamp of topLine.
reflowWrappedLinesNoClamp(m) ==
  IF m.currentBook = Nil \/ Len(m.textRunes) = 0
  THEN [m EXCEPT !.lines = <<>>, !.lineOffsets = <<>>, !.topLine = 0]
  ELSE LET innerWidth == max(0, m.width - 2) IN
    IF innerWidth <= 0
    THEN [m EXCEPT !.lines = <<>>, !.lineOffsets = <<>>, !.topLine = 0]
    ELSE LET w == Wrap(m.textRunes, innerWidth)
         IN [m EXCEPT !.lines = w.lines, !.lineOffsets = w.offsets]

reflowWrappedLines(m) ==
  IF m.currentBook = Nil \/ Len(m.textRunes) = 0
  THEN [m EXCEPT !.lines = <<>>, !.lineOffsets = <<>>, !.topLine = 0]
  ELSE LET innerWidth == max(0, m.width - 2) IN
    IF innerWidth <= 0
    THEN [m EXCEPT !.lines = <<>>, !.lineOffsets = <<>>, !.topLine = 0]
    ELSE LET w == Wrap(m.textRunes, innerWidth)
         IN [m EXCEPT !.lines = w.lines,
                      !.lineOffsets = w.offsets,
                      !.topLine = IF m.topLine >= Len(w.lines)
                                  THEN max(0, Len(w.lines) - 1)
                                  ELSE m.topLine]

visibleLineCount(m) ==
  LET ih == m.height - 3
      innerHeight == IF ih < 1 THEN 1 ELSE ih
  IN max(0, innerHeight - 1)

updateCurrentPositionFromTopLine(m) ==
  IF m.currentBook = Nil \/ Len(m.lineOffsets) = 0
  THEN [m EXCEPT !.currentPos = ZeroPosition]
  ELSE LET i0 == IF m.topLine < 0 THEN 0 ELSE m.topLine
           idx == IF i0 >= Len(m.lineOffsets) THEN Len(m.lineOffsets) - 1 ELSE i0
           abs == m.lineOffsets[idx + 1]
       IN [m EXCEPT !.currentPos = absoluteOffsetToPosition(m, abs)]

\* jumpToPosition that keeps the requested position as the current one.
jumpToPositionKeepsTarget(m, pos) ==
  IF m.currentBook = Nil \/ Len(m.lineOffsets) = 0 THEN m
  ELSE LET abs == positionToAbsoluteOffset(m, pos)
           hits == {i \in 0..(Len(m.lineOffsets) - 1) : m.lineOffsets[i + 1] >= abs}
           line == IF hits = {} THEN 0
                   ELSE CHOOSE i \in hits : \A j \in hits : i <= j
       IN [m EXCEPT !.topLine = line, !.currentPos = pos]

jumpToPosition(m, pos) ==
  IF m.currentBook = Nil \/ Len(m.lineOffsets) = 0 THEN m
  ELSE LET abs == positionToAbsoluteOffset(m, pos)
           hits == {i \in 0..(Len(m.lineOffsets) - 1) : m.lineOffsets[i + 1] >= abs}
           line == IF hits = {} THEN 0
                   ELSE CHOOSE i \in hits : \A j \in hits : i <= j
       IN updateCurrentPositionFromTopLine([m EXCEPT !.topLine = line])

setStatus(m, text) == [m EXCEPT !.statusLine = text, !.statusDirty = TRUE]

\* setBook that keeps the search state of the previous book.
setBookKeepsSearch(m, book) ==
  LET m1 == [m EXCEPT !.currentBook = <<book>>,
                      !.textRunes = book.Text,
                      !.topLine = 0,
                      !.currentPos = ZeroPosition,
                      !.tocIndex = 0]
  IN updateCurrentPositionFromTopLine(reflowWrappedLines(m1))

setBook(m, book) ==
  LET m1 == [m EXCEPT !.currentBook = <<book>>,
                      !.textRunes = book.Text,
                      !.topLine = 0,
                      !.currentPos = ZeroPosition,
                      !.lastSearch = <<>>,
                      !.lastSearchOffset = -1,
                      !.tocIndex = 0]
  IN updateCurrentPositionFromTopLine(reflowWrappedLines(m1))

(***************************************************************************)
(* Menus and commands.                                                     *)
(***************************************************************************)
\* The menus built by NewModelWithInitialBook; first is label[0].
Menus ==
  << [label |-> "File", first |-> 70,
      items |-> <<"cmdOpen", "cmdRecentFiles", "cmdExit">>],
     [label |-> "Search", first |-> 83,
      items |-> <<"cmdFind", "cmdToc">>],
     [label |-> "View", first |-> 86, items |-> <<>>],
     [label |-> "Bookmarks", first |-> 66,
      items |-> <<"cmdBookmarks", "cmdAddBookmark", "cmdDeleteBookmark">>],
     [label |-> "Help", first |-> 72, items |-> <<"cmdHelp">>] >>

\* strings.ToLower on one ASCII letter.
ToLower(r) == IF r >= 65 /\ r <= 90 THEN r + 32 ELSE r

\* strconv.Itoa for n >= 0, as code points of the decimal digits.
RECURSIVE itoa(_)
itoa(i) == IF i < 10 THEN <<48 + i>> ELSE itoa(i \div 10) \o <<48 + (i % 10)>>

openMenuByAltKey(m, ch) ==
  LET hits == {i \in 0..(Len(Menus) - 1) : ToLower(Menus[i + 1].first) = ToLower(ch)}
  IN IF hits = {} THEN m
     ELSE [m EXCEPT !.menuOpen = TRUE,
                    !.activeMenu = CHOOSE i \in hits : \A j \in hits : i <= j,
                    !.activeItem = 0]

currentBookmarks(m) ==
  IF m.currentBook = Nil THEN <<>>
  ELSE IF m.currentBook[1].Book.ID \notin DOMAIN m.bookmarks THEN <<>>
  ELSE m.bookmarks[m.currentBook[1].Book.ID]

\* PutBookmarks that makes a new map holding the list of id alone.
PutBookmarksAlone(m, id, list) ==
  [m EXCEPT !.bookmarks = [k \in {id} |-> list]]

\* m.bookmarks[id] = list
PutBookmarks(m, id, list) ==
  [m EXCEPT !.bookmarks =
     [k \in (DOMAIN m.bookmarks) \cup {id} |->
        IF k = id THEN list ELSE m.bookmarks[k]]]

\* RemoveAt that drops the last element whatever i is.
RemoveAtLast(s, i) == SubSeq(s, 1, Len(s) - 1)

\* append(s[:i], s[i+1:]...)
RemoveAt(s, i) == SubSeq(s, 1, i) \o SubSeq(s, i + 2, Len(s))

executeCommand(m, cmd) ==
  CASE cmd = "cmdOpen" ->
         setStatus([m EXCEPT !.menuOpen = FALSE, !.activeMenu = -1,
                             !.inputMode = TRUE, !.inputPrompt = "Open file: ",
                             !.inputBuffer = <<>>, !.pendingCommand = "cmdOpen"],
                   <<"Enter path to EPUB/FB2 file and press Enter.">>)
    [] cmd = "cmdExit" ->
         setStatus(m, <<"Exit: press Alt+F then X or Ctrl+C to quit.">>)
    [] cmd = "cmdFind" ->
         setStatus([m EXCEPT !.inputMode = TRUE, !.inputPrompt = "Find: ",
                             !.inputBuffer = <<>>, !.pendingCommand = "cmdFind"],
                   <<"Enter search text and press Enter. Press Esc to cancel.">>)
    [] cmd = "cmdToc" ->
         IF m.currentBook = Nil \/ Len(m.currentBook[1].TOC) = 0
         THEN setStatus(m, <<"TOC: no table of contents available for this book.">>)
         ELSE setStatus([m EXCEPT !.tocOpen = TRUE, !.tocIndex = 0,
                                  !.menuOpen = FALSE, !.activeMenu = -1],
                        <<"TOC: Use up/down to select, Enter to jump, Esc to cancel.">>)
    [] cmd = "cmdBookmarks" ->
         IF m.currentBook = Nil
         THEN setStatus(m, <<"Bookmarks: no book is currently open.">>)
         ELSE IF Len(currentBookmarks(m)) = 0
         THEN setStatus(m, <<"Bookmarks: no bookmarks for this book.">>)
         ELSE setStatus([m EXCEPT !.bookmarksOpen = TRUE, !.bookmarkIndex = 0,
                                  !.menuOpen = FALSE, !.activeMenu = -1],
                        <<"Bookmarks: Use up/down to select, Enter to jump, Esc to cancel.">>)
    [] cmd = "cmdAddBookmark" ->
         IF m.currentBook = Nil
         THEN setStatus(m, <<"Cannot add bookmark: no book is open.">>)
         ELSE LET name == <<"Bookmark ", itoa(Len(currentBookmarks(m)) + 1)>>
                  bm == [Name |-> name, BookID |-> m.currentBook[1].Book.ID,
                         Pos |-> m.currentPos]
                  list == Append(currentBookmarks(m), bm)
              IN setStatus(PutBookmarks(m, m.currentBook[1].Book.ID, list),
                           <<"Added bookmark: ", name>>)
    [] cmd = "cmdDeleteBookmark" ->
         IF ~m.bookmarksOpen \/ m.currentBook = Nil THEN m
         ELSE LET current == currentBookmarks(m) IN
           IF Len(current) = 0 \/ m.bookmarkIndex < 0 \/ m.bookmarkIndex >= Len(current)
           THEN m
           ELSE LET name == current[m.bookmarkIndex + 1].Name
                    rest == RemoveAt(current, m.bookmarkIndex)
                    m1 == PutBookmarks(m, m.currentBook[1].Book.ID, rest)
                    m2 == IF m.bookmarkIndex >= Len(rest) /\ m.bookmarkIndex > 0
                          THEN [m1 EXCEPT !.bookmarkIndex = @ - 1] ELSE m1
                IN setStatus(m2, <<"Deleted bookmark: ", name>>)
    [] cmd = "cmdRecentFiles" ->
         IF Len(m.recentFiles) = 0
         THEN setStatus(m, <<"Recent files: list is empty.">>)
         ELSE setStatus([m EXCEPT !.recentOpen = TRUE, !.recentIndex = 0,
                                  !.menuOpen = FALSE, !.activeMenu = -1],
                        <<"Recent files: Use up/down to select, Enter to open, Esc to cancel.">>)
    [] cmd = "cmdHelp" ->
         setStatus(m, <<"Help: not yet implemented (help screen will appear in later phase).">>)
    [] OTHER -> m

(***************************************************************************)
(* Search.                                                                 *)
(***************************************************************************)
\* performSearch that records the index within the scanned tail, without
\* adding the offset the scan started at.
performSearchRelativeIndex(m, term, newTerm) ==
  IF m.currentBook = Nil \/ Len(StringBytes(term)) = 0
  THEN setStatus(m, <<"Find: empty search term.">>)
  ELSE
    LET text == StringBytes(m.textRunes)
        m1 == IF newTerm \/ term # m.lastSearch
              THEN [m EXCEPT !.lastSearch = term, !.lastSearchOffset = -1]
              ELSE m
        start == IF m1.lastSearchOffset + 1 < 0 THEN 0 ELSE m1.lastSearchOffset + 1
    IN IF start >= Len(text)
       THEN setStatus(m1, <<"Find: no more matches.">>)
       ELSE LET idx == Index(SliceFrom(text, start), StringBytes(term)) IN
         IF idx = -1
         THEN IF m1.lastSearchOffset = -1
              THEN setStatus(m1, <<"Find: no matches.">>)
              ELSE setStatus(m1, <<"Find: no more matches.">>)
         ELSE LET matchOffset == idx
                  m2 == [m1 EXCEPT !.lastSearchOffset = matchOffset]
                  pos == absoluteOffsetToPosition(m2, matchOffset)
              IN setStatus(jumpToPosition(m2, pos), <<"Find: match found.">>)

\* performSearch that starts over from the beginning of the text when no
\* further match is left.
performSearchWrapsAround(m, term, newTerm) ==
  IF m.currentBook = Nil \/ Len(StringBytes(term)) = 0
  THEN setStatus(m, <<"Find: empty search term.">>)
  ELSE
    LET text == StringBytes(m.textRunes)
        m1 == IF newTerm \/ term # m.lastSearch
              THEN [m EXCEPT !.lastSearch = term, !.lastSearchOffset = -1]
              ELSE m
        start == IF m1.lastSearchOffset + 1 < 0 THEN 0 ELSE m1.lastSearchOffset + 1
    IN IF start >= Len(text)
       THEN setStatus(m1, <<"Find: no more matches.">>)
       ELSE LET idx == Index(SliceFrom(text, start), StringBytes(term)) IN
         IF idx = -1
         THEN IF m1.lastSearchOffset = -1
              THEN setStatus(m1, <<"Find: no matches.">>)
              ELSE LET again == Index(text, StringBytes(term))
                       m2 == [m1 EXCEPT !.lastSearchOffset = again]
                       pos == absoluteOffsetToPosition(m2, again)
                   IN setStatus(jumpToPosition(m2, pos), <<"Find: match found.">>)
         ELSE LET matchOffset == start + idx
                  m2 == [m1 EXCEPT !.lastSearchOffset = matchOffset]
                  pos == absoluteOffsetToPosition(m2, matchOffset)
              IN setStatus(jumpToPosition(m2, pos), <<"Find: match found.">>)

\* performSearch that ignores newTerm and clears the match state only for a
\* term other than lastSearch.
performSearchKeepsState(m, term, newTerm) ==
  IF m.currentBook = Nil \/ Len(StringBytes(term)) = 0
  THEN setStatus(m, <<"Find: empty search term.">>)
  ELSE
    LET text == StringBytes(m.textRunes)
        m1 == IF term # m.lastSearch
              THEN [m EXCEPT !.lastSearch = term, !.lastSearchOffset = -1]
              ELSE m
        start == IF m1.lastSearchOffset + 1 < 0 THEN 0 ELSE m1.lastSearchOffset + 1
    IN IF start >= Len(text)
       THEN setStatus(m1, <<"Find: no more matches.">>)
       ELSE LET idx == Index(SliceFrom(text, start), StringBytes(term)) IN
         IF idx = -1
         THEN IF m1.lastSearchOffset = -1
              THEN setStatus(m1, <<"Find: no matches.">>)
              ELSE setStatus(m1, <<"Find: no more matches.">>)
         ELSE LET matchOffset == start + idx
                  m2 == [m1 EXCEPT !.lastSearchOffset = matchOffset]
                  pos == absoluteOffsetToPosition(m2, matchOffset)
              IN setStatus(jumpToPosition(m2, pos), <<"Find: match found.">>)

\* performSearch that records the term before it looks at it.
performSearchRecordsTermFirst(m, term, newTerm) ==
  LET m0 == [m EXCEPT !.lastSearch = term, !.lastSearchOffset = -1] IN
  IF m.currentBook = Nil \/ Len(StringBytes(term)) = 0
  THEN setStatus(m0, <<"Find: empty search term.">>)
  ELSE
    LET text == StringBytes(m.textRunes)
        m1 == IF newTerm \/ term # m.lastSearch THEN m0 ELSE m
        start == IF m1.lastSearchOffset + 1 < 0 THEN 0 ELSE m1.lastSearchOffset + 1
    IN IF start >= Len(text)
       THEN setStatus(m1, <<"Find: no more matches.">>)
       ELSE LET idx == Index(SliceFrom(text, start), StringBytes(term)) IN
         IF idx = -1
         THEN IF m1.lastSearchOffset = -1
              THEN setStatus(m1, <<"Find: no matches.">>)
              ELSE setStatus(m1, <<"Find: no more matches.">>)
         ELSE LET matchOffset == start + idx
                  m2 == [m1 EXCEPT !.lastSearchOffset = matchOffset]
                  pos == absoluteOffsetToPosition(m2, matchOffset)
              IN setStatus(jumpToPosition(m2, pos), <<"Find: match found.">>)

performSearch(m, term, newTerm) ==
  IF m.currentBook = Nil \/ Len(StringBytes(term)) = 0
  THEN setStatus(m, <<"Find: empty search term.">>)
  ELSE
    LET text == StringBytes(m.textRunes)
        m1 == IF newTerm \/ term # m.lastSearch
              THEN [m EXCEPT !.lastSearch = term, !.lastSearchOffset = -1]
              ELSE m
        start == IF m1.lastSearchOffset + 1 < 0 THEN 0 ELSE m1.lastSearchOffset + 1
    IN IF start >= Len(text)
       THEN setStatus(m1, <<"Find: no more matches.">>)
       ELSE LET idx == Index(SliceFrom(text, start), StringBytes(term)) IN
         IF idx = -1
         THEN IF m1.lastSearchOffset = -1
              THEN setStatus(m1, <<"Find: no matches.">>)
              ELSE setStatus(m1, <<"Find: no more matches.">>)
         ELSE LET matchOffset == start + idx
                  m2 == [m1 EXCEPT !.lastSearchOffset = matchOffset]
                  pos == absoluteOffsetToPosition(m2, matchOffset)
              IN setStatus(jumpToPosition(m2, pos), <<"Find: match found.">>)

(***************************************************************************)
(* The unified reader.  Its loaders are not part of the sources at hand;   *)
(* a LoadedBook is built as the data model states it: contiguous chapters  *)
(* from offset 0 and TotalCharacters equal to the length of the text.      *)
(***************************************************************************)
RECURSIVE SumTo(_, _)
SumTo(lens, n) == IF n = 0 THEN 0 ELSE SumTo(lens, n - 1) + lens[n]

\* The chapters of the given lengths laid out one after the other.
ChaptersOf(lens) ==
  [i \in 1..Len(lens) |->
     [Index |-> i - 1, Offset |-> SumTo(lens, i - 1), Length |-> lens[i]]]

LoadedBook(id, text, lens, toc) ==
  [Book |-> [ID |-> id, Title |-> id, Chapters |-> ChaptersOf(lens),
             TotalCharacters |-> Len(text)],
   Text |-> text,
   TOC |-> toc]

\* The books on disk, by path: "a" (ASCII, two chapters) and "b" (a text
\* with a two-byte letter, a line break and a double-width ideograph).
Shelf ==
  [p \in {<<97>>, <<98>>} |->
     IF p = <<97>>
     THEN LoadedBook("A", <<97, 98, 97, 97, 98, 97>>, <<3, 3>>,
                     << [ChapterIndex |-> 0, OffsetInChapter |-> 0],
                        [ChapterIndex |-> 1, OffsetInChapter |-> 1] >>)
     ELSE LoadedBook("B", <<233, 97, 10, 19990, 97>>, <<3, 2>>,
                     << [ChapterIndex |-> 1, OffsetInChapter |-> 0] >>)]

\* UnifiedReader.Open: the book at path, or an error.
Open(path) ==
  IF path \in DOMAIN Shelf THEN [err |-> Nil, book |-> Shelf[path]]
  ELSE [err |-> <<"file not found">>, book |-> Nil]

\* openPath that clears the view and the search state before it calls the
\* reader.
openPathResetsFirst(m, path0) ==
  LET path == TrimSpace(path0)
      m0 == [m EXCEPT !.topLine = 0, !.currentPos = ZeroPosition,
                      !.lastSearch = <<>>, !.lastSearchOffset = -1]
  IN
  IF path = <<>> THEN setStatus(m, <<"No file path provided.">>)
  ELSE LET res == Open(path) IN
    IF res.err # Nil THEN setStatus(m0, <<"Failed to open: ", res.err[1]>>)
    ELSE setStatus(setBook(m, res.book), <<"Opened: ", res.book.Book.Title>>)

openPath(m, path0) ==
  LET path == TrimSpace(path0) IN
  IF path = <<>> THEN setStatus(m, <<"No file path provided.">>)
  ELSE LET res == Open(path) IN
    IF res.err # Nil THEN setStatus(m, <<"Failed to open: ", res.err[1]>>)
    ELSE setStatus(setBook(m, res.book), <<"Opened: ", res.book.Book.Title>>)

(***************************************************************************)
(* Key handling.                                                           *)
(***************************************************************************)
handleInputKey(m, msg) ==
  CASE msg.Type = "KeyEsc" ->
         [m EXCEPT !.inputMode = FALSE, !.inputBuffer = <<>>,
                   !.pendingCommand = "cmdNone"]
    [] msg.Type = "KeyEnter" ->
         LET input == TrimSpace(m.inputBuffer)
             pending == m.pendingCommand
             m1 == [m EXCEPT !.inputMode = FALSE, !.inputBuffer = <<>>,
                             !.pendingCommand = "cmdNone"]
         IN IF pending = "cmdOpen" THEN openPath(m1, input)
            ELSE IF pending = "cmdFind" THEN performSearch(m1, input, TRUE)
            ELSE m1
    [] msg.Type = "KeyBackspace" ->
         IF Len(m.inputBuffer) > 0
         THEN [m EXCEPT !.inputBuffer = SubSeq(@, 1, Len(@) - 1)]
         ELSE m
    [] OTHER ->
         IF Len(msg.Runes) > 0
         THEN [m EXCEPT !.inputBuffer = @ \o msg.Runes]
         ELSE m

\* handleKey, TOC dialog open.
tocDialogKey(m, msg) ==
  CASE msg.Type = "KeyEsc" -> [m EXCEPT !.tocOpen = FALSE]
    [] msg.Type = "KeyUp" ->
         IF m.tocIndex > 0 THEN [m EXCEPT !.tocIndex = @ - 1] ELSE m
    [] msg.Type = "KeyDown" ->
         LET maxIdx == Len(m.currentBook[1].TOC) - 1
         IN IF maxIdx >= 0 /\ m.tocIndex < maxIdx
            THEN [m EXCEPT !.tocIndex = @ + 1] ELSE m
    [] msg.Type = "KeyEnter" ->
         LET m1 == IF m.tocIndex >= 0 /\ m.tocIndex < Len(m.currentBook[1].TOC)
                   THEN jumpToPosition(m, m.currentBook[1].TOC[m.tocIndex + 1])
                   ELSE m
         IN [m1 EXCEPT !.tocOpen = FALSE]
    [] OTHER -> m

\* handleKey, bookmarks dialog open.
bookmarksDialogKey(m, msg) ==
  CASE msg.Type = "KeyEsc" -> [m EXCEPT !.bookmarksOpen = FALSE]
    [] msg.Type = "KeyUp" ->
         IF m.bookmarkIndex > 0 THEN [m EXCEPT !.bookmarkIndex = @ - 1] ELSE m
    [] msg.Type = "KeyDown" ->
         LET current == currentBookmarks(m)
         IN IF Len(current) = 0 THEN m
            ELSE IF m.bookmarkIndex < Len(current) - 1
            THEN [m EXCEPT !.bookmarkIndex = @ + 1] ELSE m
    [] msg.Type = "KeyEnter" ->
         LET current == currentBookmarks(m) IN
         IF Len(current) = 0 THEN [m EXCEPT !.bookmarksOpen = FALSE]
         ELSE IF m.bookmarkIndex < 0 \/ m.bookmarkIndex >= Len(current)
         THEN [m EXCEPT !.bookmarksOpen = FALSE]
         ELSE LET bm == current[m.bookmarkIndex + 1]
                  m1 == jumpToPosition(m, bm.Pos)
              IN setStatus([m1 EXCEPT !.bookmarksOpen = FALSE],
                           <<"Jumped to bookmark: ", bm.Name>>)
    [] OTHER -> m

\* handleKey, recent files dialog open.
recentDialogKey(m, msg) ==
  CASE msg.Type = "KeyEsc" -> [m EXCEPT !.recentOpen = FALSE]
    [] msg.Type = "KeyUp" ->
         IF m.recentIndex > 0 THEN [m EXCEPT !.recentIndex = @ - 1] ELSE m
    [] msg.Type = "KeyDown" ->
         IF Len(m.recentFiles) = 0 THEN m
         ELSE IF m.recentIndex < Len(m.recentFiles) - 1
         THEN [m EXCEPT !.recentIndex = @ + 1] ELSE m
    [] msg.Type = "KeyEnter" ->
         IF Len(m.recentFiles) = 0 THEN [m EXCEPT !.recentOpen = FALSE]
         ELSE IF m.recentIndex < 0 \/ m.recentIndex >= Len(m.recentFiles)
         THEN [m EXCEPT !.recentOpen = FALSE]
         ELSE openPath([m EXCEPT !.recentOpen = FALSE],
                       m.recentFiles[m.recentIndex + 1])
    [] OTHER -> m

\* handleKey, normal reading navigation.
readingKey(m, msg) ==
  LET page == IF visibleLineCount(m) <= 0 THEN 1 ELSE visibleLineCount(m)
      maxTop == max(0, Len(m.lines) - 1)
  IN
  CASE msg.Type = "KeyUp" ->
         IF m.topLine > 0
         THEN updateCurrentPositionFromTopLine([m EXCEPT !.topLine = @ - 1])
         ELSE m
    [] msg.Type = "KeyDown" ->
         IF m.topLine < Len(m.lines) - 1
         THEN updateCurrentPositionFromTopLine([m EXCEPT !.topLine = @ + 1])
         ELSE m
    [] msg.Type = "KeyPgUp" ->
         IF m.topLine > 0
         THEN updateCurrentPositionFromTopLine(
                [m EXCEPT !.topLine = IF @ - page < 0 THEN 0 ELSE @ - page])
         ELSE m
    [] msg.Type = "KeyPgDown" ->
         IF m.topLine < maxTop
         THEN updateCurrentPositionFromTopLine(
                [m EXCEPT !.topLine = IF @ + page > maxTop THEN maxTop ELSE @ + page])
         ELSE m
    [] msg.Type = "KeyHome" ->
         IF m.topLine # 0
         THEN updateCurrentPositionFromTopLine([m EXCEPT !.topLine = 0])
         ELSE m
    [] msg.Type = "KeyEnd" ->
         IF m.topLine # maxTop
         THEN updateCurrentPositionFromTopLine([m EXCEPT !.topLine = maxTop])
         ELSE m
    [] OTHER -> m

\* handleKey, menu open.
\* menuKey whose Left and Right keep the item index of the menu they leave.
menuKeyKeepsItem(m, msg) ==
  CASE msg.Type = "KeyEsc" -> [m EXCEPT !.menuOpen = FALSE, !.activeMenu = -1]
    [] msg.Type = "KeyLeft" ->
         IF m.activeMenu > 0 THEN [m EXCEPT !.activeMenu = @ - 1] ELSE m
    [] msg.Type = "KeyRight" ->
         IF m.activeMenu < Len(Menus) - 1 THEN [m EXCEPT !.activeMenu = @ + 1] ELSE m
    [] msg.Type = "KeyUp" ->
         IF m.activeMenu >= 0 /\ m.activeItem > 0
         THEN [m EXCEPT !.activeItem = @ - 1] ELSE m
    [] msg.Type = "KeyDown" ->
         IF m.activeMenu >= 0
         THEN LET items == Menus[m.activeMenu + 1].items
              IN IF Len(items) > 0 /\ m.activeItem < Len(items) - 1
                 THEN [m EXCEPT !.activeItem = @ + 1] ELSE m
         ELSE m
    [] msg.Type = "KeyEnter" ->
         IF m.activeMenu >= 0
         THEN LET items == Menus[m.activeMenu + 1].items
              IN IF Len(items) > 0 /\ m.activeItem >= 0 /\ m.activeItem < Len(items)
                 THEN executeCommand(m, items[m.activeItem + 1])
                 ELSE m
         ELSE m
    [] OTHER -> m

menuKey(m, msg) ==
  CASE msg.Type = "KeyEsc" -> [m EXCEPT !.menuOpen = FALSE, !.activeMenu = -1]
    [] msg.Type = "KeyLeft" ->
         IF m.activeMenu > 0
         THEN [m EXCEPT !.activeMenu = @ - 1, !.activeItem = 0] ELSE m
    [] msg.Type = "KeyRight" ->
         IF m.activeMenu < Len(Menus) - 1
         THEN [m EXCEPT !.activeMenu = @ + 1, !.activeItem = 0] ELSE m
    [] msg.Type = "KeyUp" ->
         IF m.activeMenu >= 0 /\ m.activeItem > 0
         THEN [m EXCEPT !.activeItem = @ - 1] ELSE m
    [] msg.Type = "KeyDown" ->
         IF m.activeMenu >= 0
         THEN LET items == Menus[m.activeMenu + 1].items
              IN IF Len(items) > 0 /\ m.activeItem < Len(items) - 1
                 THEN [m EXCEPT !.activeItem = @ + 1] ELSE m
         ELSE m
    [] msg.Type = "KeyEnter" ->
         IF m.activeMenu >= 0
         THEN LET items == Menus[m.activeMenu + 1].items
              IN IF Len(items) > 0 /\ m.activeItem >= 0 /\ m.activeItem < Len(items)
                 THEN executeCommand(m, items[m.activeItem + 1])
                 ELSE m
         ELSE m
    [] OTHER -> m

handleKey(m, msg) ==
  CASE msg.Type = "KeyF10" ->
         IF m.menuOpen
         THEN [m EXCEPT !.menuOpen = FALSE, !.activeMenu = -1]
         ELSE [m EXCEPT !.menuOpen = TRUE,
                        !.activeMenu = IF @ < 0 THEN 0 ELSE @]
    [] msg.Type = "KeyF1" -> executeCommand(m, "cmdHelp")
    [] msg.Type = "KeyF2" -> executeCommand(m, "cmdAddBookmark")
    [] msg.Type = "KeyF3" -> executeCommand(m, "cmdOpen")
    [] msg.Type = "KeyF7" ->
         IF ~m.inputMode /\ m.lastSearch # <<>>
         THEN performSearch(m, m.lastSearch, FALSE)
         ELSE executeCommand(m, "cmdFind")
    [] OTHER ->
         IF msg.Alt /\ Len(msg.Runes) = 1 THEN openMenuByAltKey(m, msg.Runes[1])
         ELSE IF ~m.menuOpen THEN
           IF m.currentBook = Nil THEN m
           ELSE IF m.tocOpen THEN tocDialogKey(m, msg)
           ELSE IF m.bookmarksOpen THEN bookmarksDialogKey(m, msg)
           ELSE IF m.recentOpen THEN recentDialogKey(m, msg)
           ELSE readingKey(m, msg)
         ELSE menuKey(m, msg)

\* Update on a WindowSizeMsg that stores the size and does not reflow.
UpdateNoReflow(m, msg) ==
  IF msg.Type = "WindowSizeMsg"
  THEN [m EXCEPT !.width = msg.Width, !.height = msg.Height]
  ELSE IF msg.Type = "KeyCtrlC" THEN [m EXCEPT !.quit = TRUE]
  ELSE IF m.inputMode THEN handleInputKey(m, msg)
  ELSE handleKey(m, msg)

\* Update that hands every key to the prompt first while one is open.
UpdatePromptFirst(m, msg) ==
  IF msg.Type = "WindowSizeMsg"
  THEN reflowWrappedLines([m EXCEPT !.width = msg.Width, !.height = msg.Height])
  ELSE IF m.inputMode THEN handleInputKey(m, msg)
  ELSE IF msg.Type = "KeyCtrlC" THEN [m EXCEPT !.quit = TRUE]
  ELSE handleKey(m, msg)

\* Update that hands a key the prompt did not consume on to handleKey.
UpdateKeysFallThrough(m, msg) ==
  IF msg.Type = "WindowSizeMsg"
  THEN reflowWrappedLines([m EXCEPT !.width = msg.Width, !.height = msg.Height])
  ELSE IF msg.Type = "KeyCtrlC" THEN [m EXCEPT !.quit = TRUE]
  ELSE IF m.inputMode /\ (msg.Type \in {"KeyEsc", "KeyEnter", "KeyBackspace"} \/ Len(msg.Runes) > 0)
  THEN handleInputKey(m, msg)
  ELSE handleKey(m, msg)

Update(m, msg) ==
  IF msg.Type = "WindowSizeMsg"
  THEN reflowWrappedLines([m EXCEPT !.width = msg.Width, !.height = msg.Height])
  ELSE IF msg.Type = "KeyCtrlC" THEN [m EXCEPT !.quit = TRUE]
  ELSE IF m.inputMode THEN handleInputKey(m, msg)
  ELSE handleKey(m, msg)

(***************************************************************************)
(* Construction.                                                           *)
(***************************************************************************)
DefaultWidth == 80
DefaultHeight == 25
DefaultRecentLimit == 10

\* detectTerminalSize: no terminal, or a positive size.
Widths == 2..MaxWidth
Heights == {4, MaxHeight}
TerminalSizes ==
  {[ok |-> FALSE, w |-> 0, h |-> 0]}
    \cup {[ok |-> TRUE, w |-> w, h |-> h] : w \in Widths, h \in Heights}

\* NewModelWithInitialBook: size is what detectTerminalSize returned, book
\* is Nil or <<LoadedBook>>.
NewModelWithInitialBook(size, book) ==
  LET m == [width |-> IF size.ok /\ size.w > 0 THEN size.w ELSE DefaultWidth,
            height |-> IF size.ok /\ size.h > 0 THEN size.h ELSE DefaultHeight,
            currentBook |-> Nil, textRunes |-> <<>>, lines |-> <<>>,
            lineOffsets |-> <<>>, topLine |-> 0, currentPos |-> ZeroPosition,
            tocOpen |-> FALSE, tocIndex |-> 0, bookmarks |-> <<>>,
            bookmarksOpen |-> FALSE, bookmarkIndex |-> 0,
            recentFiles |-> <<>>, recentOpen |-> FALSE, recentIndex |-> 0,
            recentLimit |-> DefaultRecentLimit,
            lastSearch |-> <<>>, lastSearchOffset |-> 0,
            activeMenu |-> -1, activeItem |-> 0, menuOpen |-> FALSE,
            statusLine |-> <<"Press F10 or Alt key combinations to open menus. F1 for Help.">>,
            statusDirty |-> FALSE, inputMode |-> FALSE, inputPrompt |-> "",
            inputBuffer |-> <<>>, pendingCommand |-> "cmdNone", quit |-> FALSE]
  IN IF book # Nil THEN setBook(m, book[1]) ELSE m

\* ExportBookmarks: a copy of the bookmarks map.
ExportBookmarks(m) == [k \in DOMAIN m.bookmarks |-> m.bookmarks[k]]

\* NewModelWithInitialBookAndBookmarks: bookmarks is Nil or <<map>>.
NewModelWithInitialBookAndBookmarks(size, book, bookmarks0) ==
  LET m == NewModelWithInitialBook(size, book)
  IN IF bookmarks0 # Nil THEN [m EXCEPT !.bookmarks = bookmarks0[1]] ELSE m

(***************************************************************************)
(* internal/config: the configuration file and config.Load.  A file on     *)
(* disk is missing, unreadable, or holds data; data is zero bytes or a     *)
(* JSON text, kept as what encoding/json sees in it: a syntax error, null, *)
(* a value that is not an object, or an object whose three known keys are  *)
(* absent (Nil) or carry a string or a number.                             *)
(***************************************************************************)
DefaultConfig ==
  [ThemeOverride |-> <<>>, RecentListSize |-> DefaultRecentLimit,
   DefaultLibraryPath |-> <<>>]

ErrNotExist == <<"no such file or directory">>

\* os.ReadFile on the file at the path.
ReadFile(file) ==
  CASE file.kind = "missing" -> [data |-> Nil, err |-> ErrNotExist]
    [] file.kind = "unreadable" -> [data |-> Nil, err |-> <<"permission denied">>]
    [] OTHER -> [data |-> <<file.data>>, err |-> Nil]

\* json.Unmarshal(data, &cfg): a syntax error leaves cfg untouched; null is
\* a no-op; a value of the wrong type is skipped and reported at the end,
\* after the other keys were stored.
Unmarshal(data, cfg) ==
  CASE data.kind = "syntax" -> [cfg |-> cfg, err |-> <<"invalid character">>]
    [] data.kind = "null" -> [cfg |-> cfg, err |-> Nil]
    [] data.kind = "scalar" -> [cfg |-> cfg, err |-> <<"cannot unmarshal">>]
    [] OTHER ->
         LET Store(key, type, old) ==
               IF data[key] # Nil /\ data[key][1].type = type
               THEN data[key][1].value ELSE old
             Mistyped(key, type) == data[key] # Nil /\ data[key][1].type # type
         IN [cfg |-> [ThemeOverride |->
                        Store("theme_override", "string", cfg.ThemeOverride),
                      RecentListSize |->
                        Store("recent_list_size", "number", cfg.RecentListSize),
                      DefaultLibraryPath |->
                        Store("default_library_path", "string", cfg.DefaultLibraryPath)],
             err |-> IF \/ Mistyped("theme_override", "string")
                        \/ Mistyped("recent_list_size", "number")
                        \/ Mistyped("default_library_path", "string")
                     THEN <<"cannot unmarshal">> ELSE Nil]

\* Load that returns what json.Unmarshal stored before it failed.
LoadKeepsParsed(path, file) ==
  IF path = <<>> THEN [cfg |-> DefaultConfig, err |-> <<"config path is empty">>]
  ELSE LET read == ReadFile(file) IN
    IF read.err # Nil
    THEN IF read.err = ErrNotExist THEN [cfg |-> DefaultConfig, err |-> Nil]
         ELSE [cfg |-> DefaultConfig, err |-> read.err]
    ELSE IF read.data[1].kind = "empty" THEN [cfg |-> DefaultConfig, err |-> Nil]
    ELSE Unmarshal(read.data[1], DefaultConfig)

Load(path, file) ==
  IF path = <<>> THEN [cfg |-> DefaultConfig, err |-> <<"config path is empty">>]
  ELSE LET read == ReadFile(file) IN
    IF read.err # Nil
    THEN IF read.err = ErrNotExist THEN [cfg |-> DefaultConfig, err |-> Nil]
         ELSE [cfg |-> DefaultConfig, err |-> read.err]
    ELSE IF read.data[1].kind = "empty" THEN [cfg |-> DefaultConfig, err |-> Nil]
    ELSE LET parsed == Unmarshal(read.data[1], DefaultConfig) IN
      IF parsed.err # Nil THEN [cfg |-> DefaultConfig, err |-> parsed.err]
      ELSE [cfg |-> parsed.cfg, err |-> Nil]

SetRecentLimit(m, limit) ==
  IF limit <= 0 THEN m ELSE [m EXCEPT !.recentLimit = limit]

\* main's locals after config.Load: the path it resolved, the file found
\* there, and the cfg and err that came back.
Startup(path, file) ==
  LET r == Load(path, file)
  IN [path |-> path, file |-> file, cfg |-> r.cfg, err |-> r.err]

\* main: the model it hands to the program, with the configured limit of
\* the recent files list applied.
Configured(m, cfg) ==
  IF cfg.RecentListSize > 0 THEN SetRecentLimit(m, cfg.RecentListSize) ELSE m

\* DefaultPaths().ConfigFile, and a first run with no file there.
ConfigFile == <<99>>
NoFile == [kind |-> "missing"]

\* The state is the model m.
ModelIs(m) ==
  IsModel(m, width, height, currentBook, textRunes, lines, lineOffsets,
          topLine, currentPos, tocOpen, tocIndex, bookmarks, bookmarksOpen,
          bookmarkIndex, recentFiles, recentOpen, recentIndex, recentLimit,
          lastSearch, lastSearchOffset, activeMenu, activeItem, menuOpen,
          statusLine, statusDirty, inputMode, inputPrompt, inputBuffer,
          pendingCommand, quit)

\* The state is the model m of a program started with no configuration file
\* on disk.
StateIs(m) == ModelIs(m) /\ startup = Startup(ConfigFile, NoFile)

\* The next state is the model m; main's locals stay as they are.
NextStateIs(m) ==
  /\ IsModel(m, width', height', currentBook', textRunes', lines', lineOffsets',
             topLine', currentPos', tocOpen', tocIndex', bookmarks',
             bookmarksOpen', bookmarkIndex', recentFiles', recentOpen',
             recentIndex', recentLimit', lastSearch', lastSearchOffset',
             activeMenu', activeItem', menuOpen', statusLine', statusDirty',
             inputMode', inputPrompt', inputBuffer', pendingCommand', quit')
  /\ startup' = startup

\* The program is running: Update has not returned tea.Quit.
Running == ~quit

\* Update handles msg and its result becomes the model.
Handle(msg) == NextStateIs(Update(M, msg))

Key(type) == [Type |-> type, Alt |-> FALSE, Runes |-> <<>>]

(***************************************************************************)
(* Messages, one action per kind.                                          *)
(***************************************************************************)
WindowSizeMsg ==
  /\ Running
  /\ \E w \in Widths, h \in Heights :
       Handle([Type |-> "WindowSizeMsg", Width |-> w, Height |-> h])

KeyUp == Running /\ Handle(Key("KeyUp"))
KeyDown == Running /\ Handle(Key("KeyDown"))
KeyPgUp == Running /\ Handle(Key("KeyPgUp"))
KeyPgDown == Running /\ Handle(Key("KeyPgDown"))
KeyHome == Running /\ Handle(Key("KeyHome"))
KeyEnd == Running /\ Handle(Key("KeyEnd"))
KeyLeft == Running /\ Handle(Key("KeyLeft"))
KeyRight == Running /\ Handle(Key("KeyRight"))
KeyEsc == Running /\ Handle(Key("KeyEsc"))
KeyBackspace == Running /\ Handle(Key("KeyBackspace"))
KeyF1 == Running /\ Handle(Key("KeyF1"))
KeyF3 == Running /\ Handle(Key("KeyF3"))
KeyF7 == Running /\ Handle(Key("KeyF7"))
KeyF10 == Running /\ Handle(Key("KeyF10"))
KeyCtrlC == Running /\ Handle(Key("KeyCtrlC"))

\* The bookmark list of the current book has room for one more.
BookmarkRoom ==
  currentBook = Nil \/ Len(currentBookmarks(M)) < MaxBookmarks

\* Enter would run Add Bookmark from the menu.
EnterAddsBookmark ==
  /\ ~inputMode /\ menuOpen /\ activeMenu >= 0
  /\ activeItem < Len(Menus[activeMenu + 1].items)
  /\ Menus[activeMenu + 1].items[activeItem + 1] = "cmdAddBookmark"

KeyF2 == Running /\ (~inputMode => BookmarkRoom) /\ Handle(Key("KeyF2"))

KeyEnter == Running /\ (EnterAddsBookmark => BookmarkRoom) /\ Handle(Key("KeyEnter"))

\* A printable key; in a prompt it is appended to the buffer.
KeyRunes(alphabet) ==
  \E r \in alphabet :
    /\ Running
    /\ inputMode => Len(inputBuffer) < MaxInput
    /\ Handle([Type |-> "KeyRunes", Alt |-> FALSE, Runes |-> <<r>>])

\* Alt+letter.
KeyAlt(alphabet) ==
  \E r \in alphabet :
    /\ Running
    /\ inputMode => Len(inputBuffer) < MaxInput
    /\ Handle([Type |-> "KeyRunes", Alt |-> TRUE, Runes |-> <<r>>])

(***************************************************************************)
(* SpecWrap: the reader started on any text of at most MaxTextLen code     *)
(* points, resized at will.                                                *)
(***************************************************************************)
RECURSIVE SeqsUpTo(_, _)
SeqsUpTo(S, n) ==
  IF n = 0 THEN {<<>>}
  ELSE LET shorter == SeqsUpTo(S, n - 1)
       IN shorter \cup {Append(s, x) : s \in {t \in shorter : Len(t) = n - 1}, x \in S}

\* a, line break, e-acute (two bytes), combining acute (width 0), an
\* ideograph (width 2)
WrapAlphabet == {97, 10, 233, 769, 19990}

InitWrap ==
  \E text \in SeqsUpTo(WrapAlphabet, MaxTextLen), size \in TerminalSizes :
    StateIs(NewModelWithInitialBook(size,
              <<LoadedBook("T", text, <<Len(text)>>, <<>>)>>))

NextWrap == WindowSizeMsg \/ KeyDown \/ KeyUp

SpecWrap == InitWrap /\ [][NextWrap]_vars

(***************************************************************************)
(* Spec: the reader started with or without a book of the shelf; the user  *)
(* resizes the terminal, scrolls, opens books through the Open prompt,     *)
(* searches through the Find prompt and F7, and quits.                     *)
(***************************************************************************)
\* letters typed into prompts: a, b
TypedRunes == {97, 98}
\* Alt+F, Alt+B, Alt+X
AltRunes == {102, 98, 120}

Init ==
  \E size \in TerminalSizes,
     book \in {Nil} \cup {<<Shelf[p]>> : p \in DOMAIN Shelf} :
    StateIs(NewModelWithInitialBook(size, book))

Next ==
  \/ WindowSizeMsg
  \/ KeyUp \/ KeyDown \/ KeyPgUp \/ KeyPgDown \/ KeyHome \/ KeyEnd
  \/ KeyEsc \/ KeyEnter \/ KeyBackspace
  \/ KeyF3 \/ KeyF7 \/ KeyCtrlC
  \/ KeyRunes(TypedRunes)

Spec == Init /\ [][Next]_vars

(***************************************************************************)
(* SpecPos: the reader started on a book of any chapter layout (at most    *)
(* MaxChapters chapters of at most MaxChapterLen code points, empty        *)
(* chapters and the book without chapters included), scrolled and resized. *)
(***************************************************************************)
RECURSIVE Repeat(_, _)
Repeat(x, n) == IF n = 0 THEN <<>> ELSE Append(Repeat(x, n - 1), x)

ChapterLayouts == SeqsUpTo(0..MaxChapterLen, MaxChapters)

InitPos ==
  \E lens \in ChapterLayouts, size \in {z \in TerminalSizes : z.ok} :
    StateIs(NewModelWithInitialBook(size,
              <<LoadedBook("P", Repeat(97, SumTo(lens, Len(lens))), lens,
                           [i \in 1..Len(lens) |->
                              [ChapterIndex |-> i - 1, OffsetInChapter |-> 0]])>>))

NextPos ==
  \/ WindowSizeMsg
  \/ KeyUp \/ KeyDown \/ KeyPgUp \/ KeyPgDown \/ KeyHome \/ KeyEnd

SpecPos == InitPos /\ [][NextPos]_vars

(***************************************************************************)
(* SpecSearch: the reader started on any text of at most MaxTextLen code   *)
(* points over a, b and e-acute; the user searches through the Find prompt *)
(* and F7.                                                                 *)
(***************************************************************************)
SearchAlphabet == {97, 98, 233}

InitSearch ==
  \E text \in SeqsUpTo(SearchAlphabet, MaxTextLen),
     size \in {z \in TerminalSizes : z.ok /\ z.h = MaxHeight} :
    StateIs(NewModelWithInitialBook(size,
              <<LoadedBook("T", text, <<Len(text)>>, <<>>)>>))

NextSearch ==
  KeyF7 \/ KeyRunes(TypedRunes) \/ KeyEnter \/ KeyEsc \/ KeyBackspace

SpecSearch == InitSearch /\ [][NextSearch]_vars

(***************************************************************************)
(* SpecExample: the reader started on "the cat sat on the mat".            *)
(***************************************************************************)
TheCatSatOnTheMat ==
  <<116, 104, 101, 32, 99, 97, 116, 32, 115, 97, 116, 32, 111, 110, 32,
    116, 104, 101, 32, 109, 97, 116>>

\* "at"
TermAt == <<97, 116>>

InitExample ==
  \E size \in TerminalSizes :
    StateIs(NewModelWithInitialBook(size,
              <<LoadedBook("C", TheCatSatOnTheMat, <<Len(TheCatSatOnTheMat)>>, <<>>)>>))

NextExample ==
  KeyF7 \/ KeyRunes({97, 116}) \/ KeyEnter \/ KeyEsc \/ KeyBackspace

SpecExample == InitExample /\ [][NextExample]_vars

(***************************************************************************)
(* SpecFind: the reader started without a book or on any text of at most   *)
(* MaxTextLen letters a, b in the widest terminal; the user scrolls,       *)
(* searches with F7 and opens the Find prompt from the Search menu (Alt+S  *)
(* outside a prompt, Enter).                                               *)
(***************************************************************************)
\* Alt+S
AltSearch == {115}

InitFind ==
  \E book \in {Nil} \cup {<<LoadedBook("T", text, <<Len(text)>>, <<>>)>> :
                             text \in SeqsUpTo(TypedRunes, MaxTextLen)},
     size \in {z \in TerminalSizes : z.ok /\ z.h = MaxHeight /\ z.w = MaxWidth} :
    StateIs(NewModelWithInitialBook(size, book))

\* Alt+S pressed outside a prompt.
KeyAltSearch == ~inputMode /\ KeyAlt(AltSearch)

NextFind ==
  \/ KeyAltSearch \/ KeyEnter \/ KeyEsc \/ KeyF7
  \/ KeyRunes(TypedRunes) \/ KeyDown \/ KeyUp

SpecFind == InitFind /\ [][NextFind]_vars

(***************************************************************************)
(* SpecMenu: the reader started in the largest terminal without a book or  *)
(* on a book of the shelf, with no stored bookmarks or with one stored for *)
(* book "B"; the user scrolls, adds bookmarks with F2, opens the File and  *)
(* Bookmarks menus (Alt+letter outside a prompt), walks their items and    *)
(* the dialogs and prompts they open (Up, Down, Enter, Esc) and quits.     *)
(***************************************************************************)
\* The bookmarks loaded from the persisted state.
StoredBookmarks ==
  {Nil,
   <<("B" :> << [Name |-> <<"Bookmark ", <<49>>>>, BookID |-> "B",
                Pos |-> [ChapterIndex |-> 1, OffsetInChapter |-> 0]] >>)>>}

InitMenu ==
  \E book \in {Nil} \cup {<<Shelf[p]>> : p \in DOMAIN Shelf},
     stored \in StoredBookmarks,
     size \in {z \in TerminalSizes : z.ok /\ z.h = MaxHeight /\ z.w = MaxWidth} :
    StateIs(NewModelWithInitialBookAndBookmarks(size, book, stored))

\* Alt+F, Alt+B or Alt+X pressed outside a prompt.
KeyAltMenu == ~inputMode /\ KeyAlt(AltRunes)

NextMenu ==
  \/ KeyF2 \/ KeyAltMenu
  \/ KeyUp \/ KeyDown
  \/ KeyEnter \/ KeyEsc \/ KeyCtrlC

SpecMenu == InitMenu /\ [][NextMenu]_vars

(***************************************************************************)
(* SpecAbcdef: the reader started on "abcdef" with five columns inside the *)
(* frame (or without a terminal); the user resizes, scrolls and searches.  *)
(***************************************************************************)
Abcdef == <<97, 98, 99, 100, 101, 102>>

InitAbcdef ==
  \E size \in {[ok |-> FALSE, w |-> 0, h |-> 0]}
                \cup {[ok |-> TRUE, w |-> 5 + 2, h |-> h] : h \in Heights} :
    StateIs(NewModelWithInitialBook(size,
              <<LoadedBook("abcdef", Abcdef, <<Len(Abcdef)>>, <<>>)>>))

NextAbcdef ==
  \/ WindowSizeMsg \/ KeyUp \/ KeyDown
  \/ KeyF7 \/ KeyRunes(TypedRunes) \/ KeyEnter \/ KeyEsc

SpecAbcdef == InitAbcdef /\ [][NextAbcdef]_vars

\* A session of jumps: a book of the shelf is open, the bookmarks store holds
\* one bookmark for it, and the reader scrolls, searches and jumps through
\* the table of contents and the bookmarks dialog.  A menu is opened with its
\* Alt key while neither a prompt, a menu nor a dialog is on screen.
JumpBookmarks ==
  {<<(id :> << [Name |-> <<"Bookmark ", <<49>>>>, BookID |-> id,
               Pos |-> [ChapterIndex |-> 1, OffsetInChapter |-> 1]] >>)>> :
     id \in {"A", "B"}}

InitJump ==
  \E p \in DOMAIN Shelf, stored \in JumpBookmarks, size \in {z \in TerminalSizes : z.ok /\ z.h = MaxHeight /\ z.w >= MaxWidth - 1} :
    /\ DOMAIN stored[1] = {Shelf[p].Book.ID}
    /\ StateIs(NewModelWithInitialBookAndBookmarks(size, <<Shelf[p]>>, stored))

AltJump == {115, 98}
JumpRunes == {97}
KeyAltJump == ~inputMode /\ ~menuOpen /\ ~tocOpen /\ ~bookmarksOpen /\ KeyAlt(AltJump)

NextJump ==
  \/ KeyUp \/ KeyDown \/ KeyPgUp \/ KeyPgDown \/ KeyHome \/ KeyEnd
  \/ KeyAltJump \/ KeyEnter \/ KeyEsc \/ KeyF7 \/ KeyRunes(JumpRunes)

SpecJump == InitJump /\ [][NextJump]_vars

\* Startup under every configuration: main resolves a path (empty when none
\* was resolved), finds a file of some kind there, loads it, builds the
\* model and runs the program.
JSONValues ==
  {[type |-> "string", value |-> <<100>>],
   [type |-> "number", value |-> 3],
   [type |-> "number", value |-> 0]}
JSONFields == {Nil} \cup {<<v>> : v \in JSONValues}
JSONTexts ==
  {[kind |-> "syntax"], [kind |-> "null"], [kind |-> "scalar"]}
    \cup {[kind |-> "object", theme_override |-> t, recent_list_size |-> n,
           default_library_path |-> l] :
            t \in JSONFields, n \in JSONFields, l \in JSONFields}
ConfigFiles ==
  {NoFile, [kind |-> "unreadable"], [kind |-> "file", data |-> [kind |-> "empty"]]}
    \cup {[kind |-> "file", data |-> d] : d \in JSONTexts}
ConfigPaths == {<<>>, ConfigFile}

InitConfig ==
  \E path \in ConfigPaths, file \in ConfigFiles, size \in {z \in TerminalSizes : z.ok /\ z.h = MaxHeight /\ z.w = MaxWidth} :
    /\ startup = Startup(path, file)
    /\ ModelIs(Configured(NewModelWithInitialBookAndBookmarks(size, Nil, Nil), startup.cfg))

NextConfig == KeyF1 \/ KeyF10 \/ KeyRight \/ KeyCtrlC

SpecConfig == InitConfig /\ [][NextConfig]_vars

(***************************************************************************)
(* SpecPrompt: the Open and Find prompts.  The reader, started without a   *)
(* book or on book "A", scrolls down, opens a prompt with F3, F7 or Search *)
(* > Find, and while the prompt is open presses every kind of key.         *)
(***************************************************************************)
InitPrompt ==
  \E book \in {Nil, <<Shelf[<<97>>]>>}, size \in {z \in TerminalSizes : z.ok /\ z.h = MaxHeight /\ z.w = MaxWidth} :
    StateIs(NewModelWithInitialBook(size, book))

\* A key other than Enter and Ctrl+C.
OtherKey ==
  \/ KeyEsc \/ KeyBackspace \/ KeyRunes(JumpRunes) \/ KeyAlt(AltSearch)
  \/ KeyUp \/ KeyDown \/ KeyPgUp \/ KeyPgDown \/ KeyHome \/ KeyEnd
  \/ KeyLeft \/ KeyRight \/ KeyF1 \/ KeyF2 \/ KeyF3 \/ KeyF7 \/ KeyF10

\* Such a key pressed while a prompt is open.
PromptKey == inputMode /\ OtherKey

NextPrompt ==
  \/ KeyF3 \/ KeyF7 \/ KeyAltSearch \/ KeyDown \/ KeyEnter \/ KeyEsc
  \/ KeyCtrlC \/ PromptKey

SpecPrompt == InitPrompt /\ [][NextPrompt]_vars

(***************************************************************************)
(* SpecMarks: the reader started on a book of any layout of one or more    *)
(* chapters in one of the two widest terminals, scrolled, with bookmarks    *)
(* added by F2.                                                            *)
(***************************************************************************)
InitMarks ==
  \E lens \in {l \in ChapterLayouts : Len(l) > 0}, size \in {z \in TerminalSizes : z.ok /\ z.h = MaxHeight /\ z.w >= MaxWidth - 1} :
    StateIs(NewModelWithInitialBook(size, <<LoadedBook("P", Repeat(97, SumTo(lens, Len(lens))), lens, <<>>)>>))

NextMarks == KeyUp \/ KeyDown \/ KeyEnd \/ KeyF2

SpecMarks == InitMarks /\ [][NextMarks]_vars

(***************************************************************************)
(* SpecMenuBar: the menu bar.  The reader, started without a book or on a  *)
(* book of the shelf with its stored bookmark, opens the menu bar with F10 *)
(* or a menu with its Alt key (outside a prompt), walks the menus and      *)
(* their items with the arrows and runs commands with Enter and F3, all    *)
(* but Add Bookmark; Esc closes menus, dialogs and prompts.                *)
(***************************************************************************)
InitMenuBar ==
  \E book \in {Nil} \cup {<<Shelf[p]>> : p \in DOMAIN Shelf}, size \in {z \in TerminalSizes : z.ok /\ z.h = MaxHeight /\ z.w = MaxWidth} :
    StateIs(NewModelWithInitialBookAndBookmarks(size, book, IF book = Nil THEN Nil ELSE CHOOSE stored \in JumpBookmarks : DOMAIN stored[1] = {book[1].Book.ID}))

\* Alt+F, Alt+S, Alt+V, Alt+B, Alt+H
AltMenuBar == {102, 115, 118, 98, 104}
KeyAltMenuBar == ~inputMode /\ KeyAlt(AltMenuBar)

\* Enter on anything but Bookmarks > Add Bookmark.
KeyEnterMenuBar == ~EnterAddsBookmark /\ KeyEnter

NextMenuBar ==
  \/ KeyF10 \/ KeyAltMenuBar \/ KeyLeft \/ KeyRight \/ KeyUp \/ KeyDown
  \/ KeyEnterMenuBar \/ KeyEsc \/ KeyF3

SpecMenuBar == InitMenuBar /\ [][NextMenuBar]_vars

(***************************************************************************)
(* SpecRoundTrip: bookmarks across resizes.  The reader, started on book   *)
(* "A" in one of the two widest terminals, scrolls, is resized between     *)
(* these two widths, adds bookmarks with F2 and jumps to them through      *)
(* Bookmarks > Bookmarks.                                                  *)
(***************************************************************************)
InitRoundTrip ==
  \E size \in {z \in TerminalSizes : z.ok /\ z.h = MaxHeight /\ z.w >= MaxWidth - 1} :
    StateIs(NewModelWithInitialBook(size, <<Shelf[<<97>>]>>))

\* The terminal takes one of the two widest sizes.
Resize ==
  /\ Running
  /\ \E w \in {MaxWidth - 1, MaxWidth} :
       Handle([Type |-> "WindowSizeMsg", Width |-> w, Height |-> MaxHeight])

\* Alt+B
AltBookmarks == {98}
KeyAltBookmarks == ~inputMode /\ ~menuOpen /\ ~bookmarksOpen /\ KeyAlt(AltBookmarks)

NextRoundTrip ==
  \/ Resize \/ KeyUp \/ KeyDown \/ KeyF2 \/ KeyAltBookmarks \/ KeyEnter \/ KeyEsc

SpecRoundTrip == InitRoundTrip /\ [][NextRoundTrip]_vars

(***************************************************************************)
(* Properties.                                                             *)
(***************************************************************************)
Min(S) == CHOOSE x \in S : \A y \in S : x <= y

Found == <<"Find: match found.">>
NoMatches == <<"Find: no matches.">>
NoMoreMatches == <<"Find: no more matches.">>

\* term occurs in text at the 0-based code point offset o.
OccursAt(text, term, o) == o >= 0 /\ o <= Len(text) /\ HasPrefix(SliceFrom(text, o), term)

\* The chapters are contiguous and start at offset 0.
Contiguous(chapters) ==
  /\ Len(chapters) > 0
  /\ chapters[1].Offset = 0
  /\ \A i \in 1..(Len(chapters) - 1) :
       chapters[i].Offset + chapters[i].Length = chapters[i + 1].Offset

\* C1: for a book whose chapters are contiguous and start at 0, converting
\* any offset 0 <= o < TotalCharacters to a position and back gives o.
C1_RoundTrip ==
  (currentBook # Nil /\ Contiguous(Chapters(M))) =>
    \A o \in 0..(currentBook[1].Book.TotalCharacters - 1) :
      positionToAbsoluteOffset(M, absoluteOffsetToPosition(M, o)) = o

\* A book with an empty chapter, scrolled into a later chapter.
C1_Witness ==
  /\ currentBook # Nil
  /\ Contiguous(Chapters(M))
  /\ \E i \in 1..Len(Chapters(M)) : Chapters(M)[i].Length = 0
  /\ currentPos.ChapterIndex >= 1
  /\ currentPos.OffsetInChapter >= 1
  /\ positionToAbsoluteOffset(M, currentPos) = lineOffsets[topLine + 1]

\* C2: after a successful search lastSearchOffset is the code point offset
\* of an occurrence of the term in the text.
C2_MatchOffsetInCodePoints ==
  statusLine = Found => OccursAt(textRunes, lastSearch, lastSearchOffset)

\* Find Next: F7 outside a prompt with a previous term.
FindNext == ~inputMode /\ lastSearch # <<>> /\ KeyF7

\* C3: Find Next scans from lastSearchOffset+1 and lands on the smallest
\* code point offset at or after it where the term occurs; with none left
\* it reports so and keeps lastSearchOffset.
C3_FindNextVisitsNextOccurrence ==
  [][FindNext =>
       LET occ == {o \in (lastSearchOffset + 1)..Len(textRunes) :
                     OccursAt(textRunes, lastSearch, o)}
       IN IF occ = {}
          THEN /\ lastSearchOffset' = lastSearchOffset
               /\ statusLine' \in {NoMatches, NoMoreMatches}
          ELSE /\ lastSearchOffset' = Min(occ)
               /\ statusLine' = Found]_vars

\* Enter in the Find prompt holding "at".
FindAt ==
  inputMode /\ pendingCommand = "cmdFind" /\ TrimSpace(inputBuffer) = TermAt /\ KeyEnter

\* Find Next of "at" after a match at offset o.
FindNextAtAfter(o) == FindNext /\ lastSearch = TermAt /\ lastSearchOffset = o

\* C4 as stated: on "the cat sat on the mat" a fresh search for "at" lands
\* on 5, Find Next on 17, and a third call reports no more matches.
C4_AsStated ==
  [][/\ FindAt => lastSearchOffset' = 5 /\ statusLine' = Found
     /\ FindNextAtAfter(5) => lastSearchOffset' = 17 /\ statusLine' = Found
     /\ FindNextAtAfter(17) => lastSearchOffset' = 17 /\ statusLine' = NoMoreMatches]_vars

\* C4: on "the cat sat on the mat" a fresh search for "at" lands on 5
\* (cat), Find Next on 9 (sat), Find Next again on 20 (mat), and the call
\* after that reports no more matches.
C4_CatSatMat ==
  [][/\ FindAt => lastSearchOffset' = 5 /\ statusLine' = Found
     /\ FindNextAtAfter(5) => lastSearchOffset' = 9 /\ statusLine' = Found
     /\ FindNextAtAfter(9) => lastSearchOffset' = 20 /\ statusLine' = Found
     /\ FindNextAtAfter(20) => lastSearchOffset' = 20 /\ statusLine' = NoMoreMatches]_vars

\* All three matches visited and the end reported.
C4_Witness ==
  /\ textRunes = TheCatSatOnTheMat
  /\ lastSearch = TermAt
  /\ lastSearchOffset = 20
  /\ statusLine = NoMoreMatches

\* The line jumpToPosition is specified to select for the offset abs: the
\* first line starting at or after abs, else the last line.
SpecifiedJumpLine(offsets, abs) ==
  LET hits == {i \in 0..(Len(offsets) - 1) : offsets[i + 1] >= abs}
  IN IF hits = {} THEN Len(offsets) - 1 ELSE Min(hits)

\* C5: after a jump (here to a search match) topLine is the first wrapped
\* line starting at or after the target offset, and the last line when the
\* target lies beyond every line start.
C5_JumpSelectsLine ==
  (statusLine = Found /\ lineOffsets # <<>>) =>
    topLine = SpecifiedJumpLine(lineOffsets,
                positionToAbsoluteOffset(M, absoluteOffsetToPosition(M, lastSearchOffset)))

\* Line i (0-based) of the wrap table offsets covers offset o.
LineCovers(offsets, i, o) ==
  /\ i >= 0 /\ i < Len(offsets)
  /\ offsets[i + 1] <= o
  /\ (i + 1 < Len(offsets) => o < offsets[i + 2])

\* C6: after a resize that changes the width, the top line still covers
\* the offset at which the top line started before the resize.
C6_ResizeKeepsPosition ==
  [][(width' # width /\ lineOffsets # <<>> /\ lineOffsets' # <<>>) =>
       LineCovers(lineOffsets', topLine', lineOffsets[topLine + 1])]_vars

RECURSIVE Flatten(_)
Flatten(ls) == IF ls = <<>> THEN <<>> ELSE Head(ls) \o Flatten(Tail(ls))

IsContent(r) == r # NewLine

\* C7: at any inner width > 0 the wrapped lines, concatenated in order,
\* are the text without its line breaks.
C7_WrapKeepsText ==
  (currentBook # Nil /\ width - 2 > 0) =>
    Flatten(lines) = SelectSeq(textRunes, IsContent)

\* Line k ends at a wrap point (not at a line break) and the text has a
\* line break too.
C7_Witness ==
  /\ currentBook # Nil /\ width - 2 > 0
  /\ \E i \in 1..Len(textRunes) : textRunes[i] = NewLine
  /\ \E k \in 1..(Len(lines) - 1) :
       Len(lines[k]) >= 1 /\ lineOffsets[k + 1] = lineOffsets[k] + Len(lines[k])
  /\ Len(lines) >= 3

\* The display width of a line, widths <= 0 counted as 1.
RECURSIVE LineWidth(_)
LineWidth(line) ==
  IF line = <<>> THEN 0
  ELSE (IF RuneWidth(Head(line)) <= 0 THEN 1 ELSE RuneWidth(Head(line)))
         + LineWidth(Tail(line))

\* C8 as stated: every wrapped line is at most the inner width wide.
C8_AsStated ==
  (currentBook # Nil /\ width - 2 > 0) =>
    \A i \in 1..Len(lines) : LineWidth(lines[i]) <= width - 2

\* C8: every wrapped line is at most the inner width wide, except a line
\* of a single code point that is itself wider than the inner width.
C8_LineWidthBounded ==
  (currentBook # Nil /\ width - 2 > 0) =>
    \A i \in 1..Len(lines) :
      LineWidth(lines[i]) <= width - 2 \/ Len(lines[i]) = 1

\* Inner width 1 with an ideograph on a line of its own among other lines,
\* and inner width 3 filled by an ideograph and a letter.
C8_Witness ==
  /\ currentBook # Nil /\ width - 2 > 0
  /\ Len(lines) >= 2
  /\ \E i \in 1..Len(lines) :
       \/ (width = 3 /\ Len(lines[i]) = 1 /\ LineWidth(lines[i]) = 2)
       \/ (width = 5 /\ Len(lines[i]) = 2 /\ LineWidth(lines[i]) = 3)

\* C9: one offset per line, offsets non-decreasing, and each offset is
\* where its line begins in the text (for an empty line, where the line
\* break that ends it is).
C9_LineOffsets ==
  (currentBook # Nil /\ width - 2 > 0) =>
    /\ Len(lines) = Len(lineOffsets)
    /\ \A i \in 1..(Len(lineOffsets) - 1) : lineOffsets[i] <= lineOffsets[i + 1]
    /\ \A i \in 1..Len(lines) :
         /\ lineOffsets[i] >= 0 /\ lineOffsets[i] < Len(textRunes)
         /\ IF lines[i] = <<>>
            THEN textRunes[lineOffsets[i] + 1] = NewLine
            ELSE SubSeq(textRunes, lineOffsets[i] + 1,
                        lineOffsets[i] + Len(lines[i])) = lines[i]

\* An empty line after the start of the text and a line begun at a wrap
\* point.
C9_Witness ==
  /\ currentBook # Nil /\ width - 2 > 0
  /\ \E i \in 1..Len(lines) : lines[i] = <<>> /\ lineOffsets[i] > 0
  /\ \E k \in 1..(Len(lines) - 1) :
       Len(lines[k]) >= 1 /\ lineOffsets[k + 1] = lineOffsets[k] + Len(lines[k])

\* The wrap of the current book's text at the current inner width.
CurrentWrap ==
  IF currentBook = Nil \/ width - 2 <= 0
  THEN [lines |-> <<>>, offsets |-> <<>>]
  ELSE LET w == Wrap(currentBook[1].Text, width - 2)
       IN [lines |-> w.lines, offsets |-> w.offsets]

\* C10: the stored wrap table is always the wrap of the current book's
\* text at the current inner width, and a message that changes only the
\* height leaves it as it is.
C10_WrapTableCurrent ==
  /\ [](lines = CurrentWrap.lines /\ lineOffsets = CurrentWrap.offsets)
  /\ [][(height' # height /\ width' = width) =>
          (lines' = lines /\ lineOffsets' = lineOffsets)]_vars

\* A book opened from the prompt, shown in three or more lines and
\* scrolled.
C10_Witness ==
  /\ currentBook # Nil
  /\ Len(lines) >= 3
  /\ topLine >= 1
  /\ statusLine = <<"Opened: ", currentBook[1].Book.Title>>

\* The chapters (0-based indexes) whose half-open range holds offset o.
ChaptersHolding(chapters, o) ==
  {i \in 0..(Len(chapters) - 1) :
     chapters[i + 1].Offset <= o /\ o < chapters[i + 1].Offset + chapters[i + 1].Length}

\* C11: in a book with contiguous chapters every offset 0 < o < total lies
\* in exactly one chapter, and absoluteOffsetToPosition returns that chapter
\* with OffsetInChapter = o - chapter.Offset (empty chapters are skipped);
\* for o <= 0, and for a book without chapters, it returns {0,0}.
C11_OffsetToPosition ==
  currentBook # Nil =>
    /\ \A o \in (-2)..0 : absoluteOffsetToPosition(M, o) = ZeroPosition
    /\ Len(Chapters(M)) = 0 =>
         \A o \in 0..MaxChapterLen : absoluteOffsetToPosition(M, o) = ZeroPosition
    /\ Contiguous(Chapters(M)) =>
         \A o \in 1..(currentBook[1].Book.TotalCharacters - 1) :
           LET holding == ChaptersHolding(Chapters(M), o)
           IN /\ Cardinality(holding) = 1
              /\ \A c \in holding :
                   absoluteOffsetToPosition(M, o) =
                     [ChapterIndex |-> c,
                      OffsetInChapter |-> o - Chapters(M)[c + 1].Offset]

\* A book that starts with an empty chapter, scrolled to a later line: the
\* position was derived from a positive offset and names a later chapter.
C11_Witness ==
  /\ currentBook # Nil
  /\ Contiguous(Chapters(M))
  /\ Chapters(M)[1].Length = 0
  /\ topLine > 0
  /\ lineOffsets[topLine + 1] > 0
  /\ currentPos = absoluteOffsetToPosition(M, lineOffsets[topLine + 1])
  /\ currentPos.ChapterIndex >= 1

\* C12: in a book of two or more chapters the offset at the end of the
\* book converts to the last chapter with OffsetInChapter equal to that
\* chapter's length.
C12_EndOfBookInLastChapter ==
  (/\ currentBook # Nil
   /\ Contiguous(Chapters(M))
   /\ Len(Chapters(M)) >= 2
   /\ currentBook[1].Book.TotalCharacters > 0) =>
    LET last == Len(Chapters(M)) - 1
    IN absoluteOffsetToPosition(M, currentBook[1].Book.TotalCharacters) =
         [ChapterIndex |-> last, OffsetInChapter |-> Chapters(M)[last + 1].Length]

\* C13: for a valid ChapterIndex and any OffsetInChapter, negative or
\* beyond the chapter, positionToAbsoluteOffset returns an offset within
\* [chapter.Offset, chapter.Offset + chapter.Length].
C13_OffsetInChapterClamped ==
  currentBook # Nil =>
    \A ci \in 0..(Len(Chapters(M)) - 1), oic \in (-1)..(MaxChapterLen + 1) :
      LET ch == Chapters(M)[ci + 1]
          abs == positionToAbsoluteOffset(M, [ChapterIndex |-> ci, OffsetInChapter |-> oic])
      IN ch.Offset <= abs /\ abs <= ch.Offset + ch.Length

\* The chapter indexes a stale or foreign position may carry.
StaleChapterIndexes(m) ==
  IF m.currentBook = Nil THEN (-1)..MaxChapters
  ELSE {-2, -1, Len(Chapters(m)), Len(Chapters(m)) + 1}

\* C14: a position whose ChapterIndex is negative or not below the number
\* of chapters, and any position while no book is loaded, converts to
\* offset 0.
C14_StalePositionIsZero ==
  \A ci \in StaleChapterIndexes(M), oic \in (-1)..MaxChapterLen :
    positionToAbsoluteOffset(M, [ChapterIndex |-> ci, OffsetInChapter |-> oic]) = 0

\* A book scrolled away from its beginning: the current position converts
\* to a positive offset, the same position one book's worth of chapters
\* further to 0.
C14_Witness ==
  /\ currentBook # Nil
  /\ topLine > 0
  /\ positionToAbsoluteOffset(M, currentPos) > 0
  /\ positionToAbsoluteOffset(M,
        [currentPos EXCEPT !.ChapterIndex = @ + Len(Chapters(M))]) = 0

\* Enter in the Open prompt.
OpenEnter == inputMode /\ pendingCommand = "cmdOpen" /\ KeyEnter

NoPath == <<"No file path provided.">>
FailedToOpen == <<"Failed to open: ", "file not found">>

WrapTable(text, w) ==
  IF w - 2 <= 0 \/ Len(text) = 0 THEN [lines |-> <<>>, offsets |-> <<>>]
  ELSE LET t == Wrap(text, w - 2) IN [lines |-> t.lines, offsets |-> t.offsets]

\* The view st shows book from its beginning, with that book's wrap table
\* at width w and a cleared search state.
AtBeginning(book, w, st) ==
  /\ st.currentBook = <<book>>
  /\ st.topLine = 0
  /\ st.currentPos = ZeroPosition
  /\ st.lastSearch = <<>>
  /\ st.lastSearchOffset = -1
  /\ st.textRunes = book.Text
  /\ st.lines = WrapTable(book.Text, w).lines
  /\ st.lineOffsets = WrapTable(book.Text, w).offsets

\* C16: after a successful open - the book given at startup or a path
\* confirmed in the Open prompt - the reader shows the new book from its
\* beginning: topLine 0, currentPos {0,0}, the wrap table of the new text,
\* lastSearch empty and lastSearchOffset -1, whatever the state was before.
C16_OpenStartsAtBeginning ==
  /\ (currentBook # Nil => AtBeginning(currentBook[1], width, M))
  /\ [][(OpenEnter /\ TrimSpace(inputBuffer) \in DOMAIN Shelf) =>
          AtBeginning(Shelf[TrimSpace(inputBuffer)], width,
            [currentBook |-> currentBook', topLine |-> topLine',
             currentPos |-> currentPos', lastSearch |-> lastSearch',
             lastSearchOffset |-> lastSearchOffset', textRunes |-> textRunes',
             lines |-> lines', lineOffsets |-> lineOffsets'])]_vars

\* Book "B" opened from the prompt.
C16_Witness ==
  /\ currentBook # Nil
  /\ currentBook[1].Book.ID = "B"
  /\ statusLine = <<"Opened: ", "B">>
  /\ topLine = 0
  /\ lastSearch = <<>>

\* C17: Find Next never goes back: it either finds a match beyond
\* lastSearchOffset or reports that none is left and keeps lastSearchOffset,
\* topLine and currentPos; once a search has reported no (more) matches,
\* Find Next reports the same again.
C17_NoWrapAround ==
  [][FindNext =>
       /\ \/ statusLine' = Found /\ lastSearchOffset' > lastSearchOffset
          \/ /\ statusLine' \in {NoMatches, NoMoreMatches}
             /\ UNCHANGED <<lastSearchOffset, topLine, currentPos>>
       /\ statusLine \in {NoMatches, NoMoreMatches} =>
            /\ statusLine' = statusLine
            /\ UNCHANGED <<lastSearchOffset, topLine, currentPos>>]_vars

\* The end of the matches reported while the text starts with the term: a
\* search that started over would find it at offset 0.
C17_Witness ==
  /\ statusLine = NoMoreMatches
  /\ lastSearchOffset > 0
  /\ OccursAt(StringBytes(textRunes), StringBytes(lastSearch), 0)

\* Enter in the Find prompt.
FindEnter == inputMode /\ pendingCommand = "cmdFind" /\ KeyEnter

\* C18: a term confirmed in the Find prompt is searched from offset 0,
\* whatever the previous term, the previous match offset and the viewport
\* were: lastSearch becomes the term, and lastSearchOffset the first
\* occurrence of the term in the text, or -1 when there is none.
C18_NewSearchStartsAtZero ==
  [][(FindEnter /\ currentBook # Nil /\ TrimSpace(inputBuffer) # <<>>) =>
       LET term == TrimSpace(inputBuffer)
           occ == {o \in 0..Len(textRunes) : OccursAt(textRunes, term, o)}
       IN /\ lastSearch' = term
          /\ IF occ = {}
             THEN lastSearchOffset' = -1 /\ statusLine' \in {NoMatches, NoMoreMatches}
             ELSE lastSearchOffset' = Min(occ) /\ statusLine' = Found]_vars

\* A term that does not occur, confirmed in the prompt opened from the
\* menu while the book is scrolled down.
C18_Witness ==
  /\ menuOpen /\ ~inputMode
  /\ topLine > 0
  /\ lastSearch # <<>>
  /\ lastSearchOffset = -1
  /\ statusLine = NoMatches

EmptyTerm == <<"Find: empty search term.">>

\* C19: confirming an empty term in the Find prompt, or any term while no
\* book is loaded, reports "empty search term" and leaves lastSearch,
\* lastSearchOffset, topLine and currentPos as they are.
C19_EmptySearchChangesNothing ==
  [][(FindEnter /\ (currentBook = Nil \/ TrimSpace(inputBuffer) = <<>>)) =>
       /\ statusLine' = EmptyTerm
       /\ UNCHANGED <<lastSearch, lastSearchOffset, topLine, currentPos>>]_vars

\* An empty term confirmed after an earlier match, the book scrolled.
C19_Witness ==
  /\ statusLine = EmptyTerm
  /\ currentBook # Nil
  /\ lastSearch # <<>>
  /\ lastSearchOffset > 0
  /\ topLine > 0

\* C20: a failed search reports "no matches" exactly when there is no prior
\* match of the term (lastSearchOffset = -1), a book with empty text
\* included, and "no more matches" only when there is one.
C20_FailureMessage ==
  /\ statusLine = NoMatches => lastSearchOffset = -1
  /\ statusLine = NoMoreMatches => lastSearchOffset # -1

\* The bookmark list of book id in the map bms.
ListOf(bms, id) == IF id \in DOMAIN bms THEN bms[id] ELSE <<>>

\* The Add Bookmark command runs: F2 outside a prompt, or Enter on its
\* menu item.
AddBookmark == (~inputMode /\ KeyF2) \/ (EnterAddsBookmark /\ KeyEnter)

\* C24: with a book open Add Bookmark appends one bookmark, carrying the
\* book's ID and the current position, to the list of the current book and
\* leaves that list's earlier entries and every other book's list as they
\* are; with no book open the bookmarks do not change.
C24_AddBookmarkAppendsOne ==
  [][AddBookmark =>
       IF currentBook = Nil THEN bookmarks' = bookmarks
       ELSE LET id == currentBook[1].Book.ID
                old == ListOf(bookmarks, id)
            IN /\ DOMAIN bookmarks' = DOMAIN bookmarks \cup {id}
               /\ Len(bookmarks'[id]) = Len(old) + 1
               /\ SubSeq(bookmarks'[id], 1, Len(old)) = old
               /\ bookmarks'[id][Len(old) + 1].BookID = id
               /\ bookmarks'[id][Len(old) + 1].Pos = currentPos
               /\ \A k \in DOMAIN bookmarks \ {id} : bookmarks'[k] = bookmarks[k]]_vars

\* Book "A" scrolled, with two bookmarks of its own added next to the one
\* stored for book "B".
C24_Witness ==
  /\ currentBook # Nil /\ currentBook[1].Book.ID = "A"
  /\ DOMAIN bookmarks = {"A", "B"}
  /\ Len(bookmarks["A"]) = 2
  /\ Len(bookmarks["B"]) = 1
  /\ bookmarks["A"][2].Pos = currentPos
  /\ currentPos # ZeroPosition
  /\ statusLine[1] = "Added bookmark: "

\* Enter on the Delete Bookmark item of the Bookmarks menu.
DeleteBookmark ==
  /\ ~inputMode /\ menuOpen /\ activeMenu = 3 /\ activeItem = 2
  /\ KeyEnter

\* s without its element at the 0-based index i.
Without(s, i) == [k \in 1..(Len(s) - 1) |-> IF k <= i THEN s[k] ELSE s[k + 1]]

\* C25: Delete Bookmark with the bookmarks dialog open removes the entry
\* selected there from the current book's list, keeps the others in their
\* order and the lists of other books as they are, and the bookmarks
\* exported at exit are the ones that remain; with the dialog closed or no
\* book loaded it changes nothing.
C25_DeleteBookmarkRemovesSelected ==
  [][DeleteBookmark =>
       IF /\ bookmarksOpen /\ currentBook # Nil
          /\ bookmarkIndex < Len(ListOf(bookmarks, currentBook[1].Book.ID))
       THEN LET id == currentBook[1].Book.ID
                rest == Without(bookmarks[id], bookmarkIndex)
            IN /\ DOMAIN bookmarks' = DOMAIN bookmarks
               /\ bookmarks'[id] = rest
               /\ \A k \in DOMAIN bookmarks \ {id} : bookmarks'[k] = bookmarks[k]
               /\ ExportBookmarks([bookmarks |-> bookmarks'])[id] = rest
       ELSE UNCHANGED vars]_vars

\* The first of two bookmarks deleted: the second one remains, alone.
C25_Witness ==
  /\ currentBook # Nil /\ bookmarksOpen
  /\ statusLine = <<"Deleted bookmark: ", <<"Bookmark ", <<49>>>>>>
  /\ Len(ListOf(bookmarks, currentBook[1].Book.ID)) = 1
  /\ ListOf(bookmarks, currentBook[1].Book.ID)[1].Name = <<"Bookmark ", <<50>>>>

\* C26: in every reachable state - menu open, prompt open, dialog open, no
\* book loaded - Update answers a Ctrl+C key message with the quit
\* command.
C26_CtrlCQuits == Update(M, Key("KeyCtrlC")).quit

\* The program has quit while the Open prompt was taking input.
C26_Witness == quit /\ inputMode /\ pendingCommand = "cmdOpen"

\* C27: Enter on the Exit item of the File menu, and X pressed in the
\* File menu opened with Alt+F, make Update return the quit command.
C27_ExitQuits ==
  (~inputMode /\ menuOpen /\ activeMenu = 0) =>
    /\ Update(M, [Type |-> "KeyRunes", Alt |-> FALSE, Runes |-> <<120>>]).quit
    /\ activeItem = 2 => Update(M, Key("KeyEnter")).quit

\* C28: after a path is opened from the Open prompt it is in recentFiles,
\* and recentFiles never holds more than recentLimit paths.
C28_RecentFilesMaintained ==
  /\ [](Len(recentFiles) <= recentLimit)
  /\ [][(OpenEnter /\ TrimSpace(inputBuffer) \in DOMAIN Shelf) =>
          \E i \in 1..Len(recentFiles') : recentFiles'[i] = TrimSpace(inputBuffer)]_vars

\* C22: reflowing again with the same text and width gives the same lines
\* and lineOffsets, and so does reflowing at any other width and then at
\* the original width again.
C22_WrapIdempotent ==
  currentBook # Nil =>
    /\ LET again == reflowWrappedLines(M)
       IN again.lines = lines /\ again.lineOffsets = lineOffsets
    /\ \A w \in Widths :
         LET there == reflowWrappedLines([M EXCEPT !.width = w])
             back == reflowWrappedLines([there EXCEPT !.width = width])
         IN back.lines = lines /\ back.lineOffsets = lineOffsets

\* A text with a line break wrapped into three or more lines, scrolled to
\* its last line.
C22_Witness ==
  /\ currentBook # Nil
  /\ Len(lines) >= 3
  /\ topLine = Len(lines) - 1
  /\ \E i \in 1..Len(textRunes) : textRunes[i] = NewLine
  /\ \E w \in Widths : reflowWrappedLines([M EXCEPT !.width = w]).lines # lines

\* C23: "abcdef" wrapped at five columns is "abcde", "f" with offsets 0, 5.
C23_AbcdefAtFive ==
  (textRunes = Abcdef /\ width - 2 = 5) =>
    /\ lines = <<SubSeq(Abcdef, 1, 5), SubSeq(Abcdef, 6, 6)>>
    /\ lineOffsets = <<0, 5>>

\* "abcdef" at five columns, scrolled to its second line "f".
C23_Witness ==
  /\ textRunes = Abcdef /\ width - 2 = 5
  /\ Len(lines) = 2
  /\ topLine = 1
  /\ lines[topLine + 1] = <<102>>

\* The cells the wrap counts for code point r.
CellWidth(r) == IF RuneWidth(r) <= 0 THEN 1 ELSE RuneWidth(r)

\* The 0-based offset of the code point that follows line k (1-based).
LineEnd(k) == lineOffsets[k] + Len(lines[k])

\* Line k is ended by a line break.
EndedByNewLine(k) ==
  LineEnd(k) < Len(textRunes) /\ textRunes[LineEnd(k) + 1] = NewLine

\* C30: every line break ends a line, which is emitted even when empty,
\* and the next line starts right after it; a line not ended by a line
\* break and not the last one is non-empty and maximal - the code point
\* that follows it would not have fit - and the next line starts with that
\* code point; the last line runs to the end of the text, and a text that
\* ends in a line break has no line after that break.
C30_GreedyWrap ==
  (currentBook # Nil /\ width - 2 > 0) =>
    /\ \A o \in 0..(Len(textRunes) - 1) :
         textRunes[o + 1] = NewLine => \E k \in 1..Len(lines) : LineEnd(k) = o
    /\ \A k \in 1..Len(lines) :
         IF EndedByNewLine(k)
         THEN k < Len(lines) => lineOffsets[k + 1] = LineEnd(k) + 1
         ELSE IF k < Len(lines)
         THEN /\ Len(lines[k]) > 0
              /\ LineWidth(lines[k]) + CellWidth(textRunes[LineEnd(k) + 1]) > width - 2
              /\ lineOffsets[k + 1] = LineEnd(k)
         ELSE LineEnd(k) = Len(textRunes)
    /\ (textRunes # <<>> /\ textRunes[Len(textRunes)] = NewLine) =>
         LineEnd(Len(lines)) = Len(textRunes) - 1

\* A text that ends in a line break, with an empty line and a line broken
\* at the width.
C30_Witness ==
  /\ currentBook # Nil /\ width - 2 > 0
  /\ textRunes # <<>> /\ textRunes[Len(textRunes)] = NewLine
  /\ \E k \in 1..Len(lines) : lines[k] = <<>>
  /\ \E k \in 1..(Len(lines) - 1) : ~EndedByNewLine(k)

\* Enter in the TOC dialog on an entry of the book's table of contents.
TocJump ==
  /\ ~inputMode /\ ~menuOpen /\ currentBook # Nil /\ tocOpen
  /\ tocIndex >= 0 /\ tocIndex < Len(currentBook[1].TOC)
  /\ KeyEnter

\* Enter in the bookmarks dialog on a bookmark of the current book.
BookmarkJump ==
  /\ ~inputMode /\ ~menuOpen /\ currentBook # Nil /\ ~tocOpen /\ bookmarksOpen
  /\ bookmarkIndex >= 0 /\ bookmarkIndex < Len(currentBookmarks(M))
  /\ KeyEnter

\* A search, fresh or Find Next, that finds a match.
SearchJump == (FindNext \/ FindEnter) /\ currentBook # Nil /\ statusLine' = Found

\* A scroll key in the reading view that moves the viewport.
ScrollMove ==
  /\ ~inputMode /\ ~menuOpen /\ currentBook # Nil /\ ~tocOpen /\ ~bookmarksOpen
  /\ KeyUp \/ KeyDown \/ KeyPgUp \/ KeyPgDown \/ KeyHome \/ KeyEnd
  /\ topLine' # topLine

\* C21: after a TOC, bookmark or search jump, and after a scroll key that
\* moves the viewport, the view has lines, topLine is one of them, and
\* currentPos is the position of the first code point of the line at
\* topLine: it is derived from that line's offset, whatever position the
\* jump asked for.  (With no line to show, as at an inner width of zero, a
\* jump leaves the view and currentPos as they are.)
C21_CurrentPosFromTopLine ==
  [][((TocJump \/ BookmarkJump \/ SearchJump \/ ScrollMove) /\ lineOffsets # <<>>) =>
       /\ lineOffsets' = lineOffsets
       /\ topLine' \in 0..(Len(lineOffsets) - 1)
       /\ currentPos' = absoluteOffsetToPosition([currentBook |-> currentBook'],
                                                 lineOffsets'[topLine' + 1])]_vars

\* A bookmark jump has run and the current position is the start of the top
\* line, not the position stored in the bookmark.
C21_Witness ==
  /\ currentBook # Nil /\ lineOffsets # <<>>
  /\ Len(statusLine) = 2 /\ statusLine[1] = "Jumped to bookmark: "
  /\ Len(currentBookmarks(M)) > 0
  /\ currentPos # currentBookmarks(M)[bookmarkIndex + 1].Pos
  /\ currentPos = absoluteOffsetToPosition(M, lineOffsets[topLine + 1])

\* The configuration a JSON object spells out: each key it carries, with
\* the defaults for the keys it leaves out.
Spelled(data) ==
  LET Value(key, default) == IF data[key] = Nil THEN default ELSE data[key][1].value
  IN [ThemeOverride |-> Value("theme_override", <<>>),
      RecentListSize |-> Value("recent_list_size", DefaultRecentLimit),
      DefaultLibraryPath |-> Value("default_library_path", <<>>)]

\* The file at the configuration path holds JSON that does not decode into
\* a Config: it is malformed, not an object, or gives a key the wrong type.
InvalidJSON(file) ==
  /\ file.kind = "file"
  /\ \/ file.data.kind \in {"syntax", "scalar"}
     \/ /\ file.data.kind = "object"
        /\ \/ file.data.theme_override # Nil /\ file.data.theme_override[1].type # "string"
           \/ file.data.recent_list_size # Nil /\ file.data.recent_list_size[1].type # "number"
           \/ file.data.default_library_path # Nil /\ file.data.default_library_path[1].type # "string"

\* C29: config.Load returns no partial configuration.  With a path, a
\* missing file and a file of zero bytes give DefaultConfig and no error; an
\* empty path, an unreadable file and invalid JSON give DefaultConfig and an
\* error; any other file gives no error and the configuration it spells
\* out (the defaults, for the JSON text null).
\* After an error the program runs with the default settings.
C29_LoadNeverPartial ==
  /\ (startup.path # <<>> /\ (startup.file.kind = "missing" \/ (startup.file.kind = "file" /\ startup.file.data.kind = "empty")))
       => startup.cfg = DefaultConfig /\ startup.err = Nil
  /\ (startup.path = <<>> \/ startup.file.kind = "unreadable" \/ InvalidJSON(startup.file))
       => startup.cfg = DefaultConfig /\ startup.err # Nil
  /\ startup.err # Nil => startup.cfg = DefaultConfig /\ recentLimit = DefaultRecentLimit
  /\ (startup.path # <<>> /\ startup.file.kind = "file" /\ ~InvalidJSON(startup.file))
       => /\ startup.err = Nil
          /\ startup.cfg = IF startup.file.data.kind = "object"
                           THEN Spelled(startup.file.data) ELSE DefaultConfig

\* The program runs (its menu bar is open) after loading a file that sets
\* the recent files limit to 3 and gives the theme as a number: Load
\* reported the error and main kept the defaults.
C29_Witness ==
  /\ ~quit /\ menuOpen
  /\ startup.path # <<>> /\ startup.err # Nil
  /\ startup.file.kind = "file" /\ startup.file.data.kind = "object"
  /\ startup.file.data.recent_list_size = <<[type |-> "number", value |-> 3]>>
  /\ startup.file.data.theme_override # Nil
  /\ startup.cfg = DefaultConfig /\ recentLimit = DefaultRecentLimit

\* The offset a jump is asked to bring into view: the position handed to
\* jumpToPosition, as an offset into the text.
TocTarget == positionToAbsoluteOffset(M, currentBook[1].TOC[tocIndex + 1])
BookmarkTarget == positionToAbsoluteOffset(M, currentBookmarks(M)[bookmarkIndex + 1].Pos)

\* With the view starting at line top, some line of the view covers offset o.
Visible(offsets, top, o) == \E i \in top..(Len(offsets) - 1) : LineCovers(offsets, i, o)

\* C31: after a jump to a position inside the book (a TOC entry, a bookmark
\* or a search match) the wrapped line that contains the target offset is at
\* or below the top of the viewport.
C31_JumpTargetVisible ==
  [][/\ (TocJump /\ lineOffsets # <<>> /\ TocTarget \in 0..(Len(textRunes) - 1))
          => Visible(lineOffsets, topLine', TocTarget)
     /\ (BookmarkJump /\ lineOffsets # <<>> /\ BookmarkTarget \in 0..(Len(textRunes) - 1))
          => Visible(lineOffsets, topLine', BookmarkTarget)
     /\ (SearchJump /\ lineOffsets # <<>> /\ lastSearchOffset' \in 0..(Len(textRunes) - 1))
          => Visible(lineOffsets, topLine', positionToAbsoluteOffset(M, absoluteOffsetToPosition(M, lastSearchOffset')))]_vars

\* C32: while a prompt is open a key other than Enter and Ctrl+C changes
\* nothing of the menu, the dialogs, the viewport, the book, the search
\* state and the bookmarks, and Esc closes the prompt with the buffer
\* cleared and no command pending.
C32_PromptConsumesKeys ==
  [][/\ PromptKey =>
          UNCHANGED <<menuOpen, activeMenu, activeItem, tocOpen, tocIndex,
                      bookmarksOpen, bookmarkIndex, recentOpen, recentIndex,
                      topLine, currentPos, currentBook, textRunes, lines,
                      lineOffsets, lastSearch, lastSearchOffset, bookmarks, quit>>
     /\ (inputMode /\ KeyEsc) =>
          /\ ~inputMode' /\ inputBuffer' = <<>> /\ pendingCommand' = "cmdNone"
          /\ UNCHANGED <<currentBook, lastSearch, lastSearchOffset, statusLine>>]_vars

\* The Find prompt was opened below the top of a book and closed with Esc:
\* its hint is still in the status line and the viewport is where it was.
C32_Witness ==
  /\ ~inputMode /\ inputBuffer = <<>> /\ pendingCommand = "cmdNone"
  /\ currentBook # Nil /\ topLine > 0
  /\ statusLine = <<"Enter search text and press Enter. Press Esc to cancel.">>

\* pos names a place of a book with these chapters.
ValidPosition(chapters, pos) ==
  /\ pos.ChapterIndex >= 0 /\ pos.ChapterIndex < Len(chapters)
  /\ pos.OffsetInChapter >= 0
  /\ pos.OffsetInChapter <= chapters[pos.ChapterIndex + 1].Length

\* C33: with a book of one or more contiguous chapters loaded, currentPos is
\* a valid position of the book, and so is the Pos of every bookmark of the
\* book.
C33_PositionsValid ==
  (currentBook # Nil /\ Contiguous(Chapters(M))) =>
    /\ ValidPosition(Chapters(M), currentPos)
    /\ \A i \in 1..Len(currentBookmarks(M)) :
         ValidPosition(Chapters(M), currentBookmarks(M)[i].Pos)

\* The view is inside a later chapter, past its start, and a bookmark was
\* added in a later chapter.
C33_Witness ==
  /\ currentBook # Nil /\ Contiguous(Chapters(M))
  /\ currentPos.ChapterIndex > 0 /\ currentPos.OffsetInChapter > 0
  /\ \E i \in 1..Len(currentBookmarks(M)) : currentBookmarks(M)[i].Pos.ChapterIndex > 0

\* C34: with a book loaded and a non-empty wrap table, currentPos is the
\* position of the start of the line at topLine, in every reachable state.
C34_CurrentPosTracksTopLine ==
  (currentBook # Nil /\ lineOffsets # <<>>) =>
    /\ topLine \in 0..(Len(lineOffsets) - 1)
    /\ currentPos = absoluteOffsetToPosition(M, lineOffsets[topLine + 1])

\* C35: topLine is 0 when the wrap table is empty and the index of one of
\* its lines otherwise.
C35_TopLineValid ==
  IF lines = <<>> THEN topLine = 0 ELSE topLine \in 0..(Len(lines) - 1)

\* The view is at the last of three or more lines of a book found by a
\* search.
C35_Witness ==
  /\ Len(lines) >= 3 /\ topLine = Len(lines) - 1
  /\ lastSearchOffset >= 0

\* The menu whose items are on screen, or will be when F10 reopens the bar.
ShownMenu == IF menuOpen THEN activeMenu ELSE 0

\* C36: the menu is open exactly when activeMenu is the index of a menu, and
\* activeMenu is -1 when it is closed; activeItem is an index of an item of
\* the active menu (0 for a menu without items), and while the bar is closed
\* it stays an index the File menu, which F10 reopens, has.
C36_MenuCursorConsistent ==
  /\ menuOpen <=> activeMenu \in 0..(Len(Menus) - 1)
  /\ ~menuOpen => activeMenu = -1
  /\ activeItem >= 0
  /\ activeItem < max(1, Len(Menus[ShownMenu + 1].items))

\* The View menu, which has no items, is open.
C36_Witness == menuOpen /\ Menus[activeMenu + 1].items = <<>> /\ activeItem = 0

\* C37: the menu and a prompt are never active together.
C37_MenuAndPromptExclusive == ~(menuOpen /\ inputMode)

\* C38: at most one of the TOC, bookmarks and recent files dialogs is open,
\* and none of them while the menu is open.
C38_DialogsExclusive ==
  /\ ~(tocOpen /\ bookmarksOpen) /\ ~(tocOpen /\ recentOpen) /\ ~(bookmarksOpen /\ recentOpen)
  /\ menuOpen => ~(tocOpen \/ bookmarksOpen \/ recentOpen)

\* The line a jump to pos selects in the wrap table of m.
LandingLine(m, pos) == jumpToPosition(m, pos).topLine

\* C39: a bookmark added while line L is at the top of the viewport brings
\* line L back to the top when it is selected in the bookmarks dialog, as
\* long as the wrap table is the one it was added under (no resize, no other
\* book): the position Add Bookmark stores is one whose jump lands on the
\* line then at the top, and Enter in the dialog lands where a jump to the
\* stored position lands and closes the dialog.
C39_BookmarkRoundTrip ==
  [][/\ (AddBookmark /\ currentBook # Nil /\ lineOffsets # <<>>)
          => LandingLine(M, currentBookmarks([currentBook |-> currentBook', bookmarks |-> bookmarks'])[Len(currentBookmarks(M)) + 1].Pos) = topLine
     /\ (BookmarkJump /\ lineOffsets # <<>>)
          => /\ topLine' = LandingLine(M, currentBookmarks(M)[bookmarkIndex + 1].Pos)
             /\ ~bookmarksOpen']_vars

\* C40: no two bookmarks of the same book have the same Name.
C40_BookmarkNamesUnique ==
  \A id \in DOMAIN bookmarks :
    \A i, j \in 1..Len(bookmarks[id]) :
      bookmarks[id][i].Name = bookmarks[id][j].Name => i = j
====
